---- MODULE Spec2Model ----
(***************************************************************************)
(* State-machine model of the cell-gc heap allocator and collector         *)
(* (src/src/heap.rs, src/src/pages.rs).  One heap H is modelled in full:   *)
(* its page sets, pages, mark words, slot contents, marking tracer and     *)
(* deferred-unpin queue, together with the session thread's position and   *)
(* the external handles (GcRef, GcFrozenRef) the host program holds.       *)
(***************************************************************************)
EXTENDS Integers, Sequences, FiniteSets, TLC

(* ------------------------------ bounds --------------------------------- *)

\* Allocation slots the pages handed out by the operating system hold in all.
MaxSlots == 2

\* Pins outstanding at once over the whole heap: the handles (GcRef,
\* GcFrozenRef) the host holds, has leaked, or has dropped and not yet unpinned.
MaxPins == 2

\* The arguments of round_up that are enumerated: n in 0 .. MaxRoundUp and
\* k in 1 .. MaxRoundUp.
MaxRoundUp == 9

(* ------------------------- program constants --------------------------- *)

MARK_BIT == 1

ALLOCATED_BIT == 2

\* One unit of pin count in the mark word (bits 2 and above).
PIN_UNIT == 4

PAGE_SIZE == 4096

\* size_of::<usize>() = size_of::<MarkWord>() = size of a pointer (64-bit).
WORD == 8

\* Option<usize>::None of PageSet::limit.
NoLimit == -1

\* Null page pointer and null slot pointer.
NullPage == 0

NULL == <<0, 0>>

(* ------------------------------ MarkWord -------------------------------- *)

\* w & b # 0 for a one-bit mask b.
HasBit(w, b) == (w \div b) % 2 = 1

is_allocated(w) == HasBit(w, ALLOCATED_BIT)

set_allocated(w) == IF HasBit(w, ALLOCATED_BIT) THEN w ELSE w + ALLOCATED_BIT

\* Mutant of clear_allocated: the mark bit is cleared instead.
clear_allocated_wrong_bit(w) == IF HasBit(w, MARK_BIT) THEN w - MARK_BIT ELSE w

clear_allocated(w) == IF HasBit(w, ALLOCATED_BIT) THEN w - ALLOCATED_BIT ELSE w

is_marked(w) == HasBit(w, MARK_BIT)

\* Mutant of mark: the bit is added instead of or-ed in.
mark_adds(w) == w + MARK_BIT

mark(w) == IF HasBit(w, MARK_BIT) THEN w ELSE w + MARK_BIT

unmark(w) == IF HasBit(w, MARK_BIT) THEN w - MARK_BIT ELSE w

\* Mutant of is_pinned: the pin count is read one bit too high.
is_pinned_shifted(w) == (w \div (2 * PIN_UNIT)) # 0

is_pinned(w) == (w \div PIN_UNIT) # 0

pin(w) == w + PIN_UNIT

unpin(w) == w - PIN_UNIT

\* The pin count field of a mark word.
PinCount(w) == w \div PIN_UNIT

MARK_WORD_INIT == 0

(* --------------------------- types and layout --------------------------- *)

\* The host's heap types: a Pair holds one heap pointer to a Pair and padding,
\* a Big holds no heap pointer and fills a page, a Huge holds no heap pointer
\* and is as large as a page, an Odd is an array of 503 u32 (alignment 4, two
\* to a page).
HeapTypes == {"Pair", "Big", "Huge", "Odd"}

\* size_of::<T::In>() of each heap type.
SizeOf(t) ==
  IF t = "Pair" THEN 2016
  ELSE IF t = "Big" THEN 4048
  ELSE IF t = "Huge" THEN PAGE_SIZE ELSE 2012

\* Whether the in-heap form of the type has a heap pointer field.
HasPointer(t) == t = "Pair"

Max(a, b) == IF a >= b THEN a ELSE b

round_up(n, k) == LET a == (n \div k) * k IN IF a = n THEN n ELSE n + k

\* TypedPage::<U>::allocation_size for a U of sz bytes.
slot_size(sz) == WORD + round_up(Max(sz, WORD), WORD)

allocation_size(t) == slot_size(SizeOf(t))

\* size_of::<PageHeader>(): heap, next_page, mark_fn, freelist, allocation_size.
first_allocation_offset == 5 * WORD

capacity(t) == (PAGE_SIZE - first_allocation_offset) \div allocation_size(t)

\* Offset in its page of the mark word of slot i of a page of type t
\* (TypedPage::begin plus i - 1 allocations).
mark_word_offset(t, i) == first_allocation_offset + (i - 1) * allocation_size(t)

\* Some mark word of a page of type t is not aligned for a MarkWord.
HasMisalignedMarkWord(t) ==
  \E i \in 1..capacity(t) : mark_word_offset(t, i) % WORD # 0

(* ------------------------------- state ---------------------------------- *)

VARIABLES
  pages,      \* page id -> header [type, next_page, freelist]
  mw,         \* slot address -> mark word
  mem,        \* slot address -> the slot's word: freelist link or pointer field
  drops,      \* slot address -> destructor runs on the value last written there
  page_sets,  \* type -> [page_count, full_pages, other_pages, limit]
  marking_tracer,       \* TRUE iff the heap's Option<MarkingTracer> is Some
  dropped_frozen_ptrs,  \* the deferred-unpin queue (Vec behind the Mutex)
  arc_alive,  \* TRUE while the heap's Arc<Mutex<..>> has a strong owner
  pc,         \* position of the heap thread
  gc_caller,  \* who runs the current cycle: "force", "alloc" or "drop"
  dropped_ptrs,  \* the local vector swapped out of the queue by the cycle
  guard,      \* "heap" while the heap thread holds the queue's MutexGuard, else ""
  unpinned,   \* history: the addresses the running cycle has unpinned
  roots,      \* the roots vector built by clear_mark_bits
  pending,    \* the value try_alloc is holding while it collects
  refs,       \* slot address -> GcRefs the session holds
  frozen,     \* slot address -> GcFrozenRefs of this heap that are alive
  leaked,     \* slot address -> GcRefs the host has forgotten (mem::forget)
  other_arc_alive,  \* TRUE while a second heap's Arc has a strong owner
  other_frozen,     \* GcFrozenRefs of the second heap the host holds
  ret,        \* outcome of the operation the session completed last
  panic       \* message of the panic that ended the run, or ""

vars == <<pages, mw, mem, drops, page_sets, marking_tracer, dropped_frozen_ptrs,
          arc_alive, pc, gc_caller, dropped_ptrs, guard, unpinned, roots, pending, refs,
          frozen, leaked, other_arc_alive, other_frozen, ret, panic>>

heapVars == <<pages, mw, mem, drops, page_sets>>

gcVars == <<gc_caller, dropped_ptrs, guard, unpinned, roots>>

hostVars == <<refs, frozen, leaked>>

otherVars == <<other_arc_alive, other_frozen>>

\* The slots of page p, by address <<p, i>>, i = 1 .. capacity.
PageSlots(p, t) == {<<p, i>> : i \in 1..capacity(t)}

Slots == DOMAIN mw

PageIds == DOMAIN pages

\* The heap as one record, for the operators that thread it through loops.
\* swept is the log of the pages TypedPage::sweep has been run on, in order,
\* since the record was built; it is not part of the state.
Heap == [pages |-> pages, mw |-> mw, mem |-> mem, drops |-> drops, sets |-> page_sets,
         swept |-> <<>>]

NoPending == [type |-> "", child |-> NULL]

NoRet == [kind |-> "", ptr |-> NULL]

(* ------------------------------- pages ---------------------------------- *)

\* Mutant of add_to_free_list: the old head is not stored in the slot.
add_to_free_list_unlinked(h, p, a) ==
  [h EXCEPT !.mem[a] = NULL, !.pages[p].freelist = a]

\* TypedPage::add_to_free_list: the slot's word becomes the old head.
add_to_free_list(h, p, a) ==
  [h EXCEPT !.mem[a] = h.pages[p].freelist, !.pages[p].freelist = a]

\* TypedPage::init_mark_words_and_freelist, slot i onwards.
RECURSIVE init_mark_words_and_freelist(_, _, _)
init_mark_words_and_freelist(h, p, i) ==
  IF i > capacity(h.pages[p].type) THEN h
  ELSE init_mark_words_and_freelist(
         add_to_free_list([h EXCEPT !.mw[<<p, i>>] = MARK_WORD_INIT], p, <<p, i>>),
         p, i + 1)

\* Mutant of page_try_alloc: the freelist head is not advanced.
page_try_alloc_no_pop(h, p) ==
  LET a == h.pages[p].freelist
  IN IF a = NULL THEN [h |-> h, ptr |-> NULL, fail |-> ""]
     ELSE IF is_allocated(h.mw[a])
          THEN [h |-> h, ptr |-> NULL, fail |-> "assert !mw.is_allocated()"]
          ELSE [h |-> [h EXCEPT !.mw[a] = set_allocated(h.mw[a])],
                ptr |-> a, fail |-> ""]

\* TypedPage::try_alloc: pop the freelist head; ptr = NULL is None.
page_try_alloc(h, p) ==
  LET a == h.pages[p].freelist
  IN IF a = NULL THEN [h |-> h, ptr |-> NULL, fail |-> ""]
     ELSE IF is_allocated(h.mw[a])
          THEN [h |-> h, ptr |-> NULL, fail |-> "assert !mw.is_allocated()"]
          ELSE [h |-> [h EXCEPT !.pages[p].freelist = h.mem[a],
                                !.mw[a] = set_allocated(h.mw[a])],
                ptr |-> a, fail |-> ""]

\* Mutant of page_sweep: the loop ends after the first value it destroys.
page_sweep_first_only(h, p, i, swept_any) ==
  LET dead == {j \in i..capacity(h.pages[p].type) :
                 is_allocated(h.mw[<<p, j>>]) /\ ~is_marked(h.mw[<<p, j>>])}
  IN IF dead = {} THEN [h |-> h, swept_any |-> swept_any]
     ELSE LET a == <<p, CHOOSE j \in dead : \A k \in dead : j <= k>>
          IN [h |-> add_to_free_list(
                      [h EXCEPT !.drops[a] = @ + 1, !.mw[a] = clear_allocated(@)],
                      p, a),
              swept_any |-> TRUE]

\* Mutant of page_sweep: marked values are destroyed too.
RECURSIVE page_sweep_marked_too(_, _, _, _)
page_sweep_marked_too(h, p, i, swept_any) ==
  IF i > capacity(h.pages[p].type) THEN [h |-> h, swept_any |-> swept_any]
  ELSE LET a == <<p, i>>
       IN IF is_allocated(h.mw[a])
          THEN page_sweep_marked_too(
                 add_to_free_list(
                   [h EXCEPT !.drops[a] = @ + 1, !.mw[a] = clear_allocated(@)],
                   p, a),
                 p, i + 1, TRUE)
          ELSE page_sweep_marked_too(h, p, i + 1, swept_any)

\* TypedPage::sweep, slot i onwards: destroy every allocated unmarked value.
RECURSIVE page_sweep(_, _, _, _)
page_sweep(h, p, i, swept_any) ==
  IF i > capacity(h.pages[p].type)
  THEN [h |-> [h EXCEPT !.swept = Append(@, p)], swept_any |-> swept_any]
  ELSE LET a == <<p, i>>
       IN IF is_allocated(h.mw[a]) /\ ~is_marked(h.mw[a])
          THEN page_sweep(
                 add_to_free_list(
                   [h EXCEPT !.drops[a] = @ + 1, !.mw[a] = clear_allocated(@)],
                   p, a),
                 p, i + 1, TRUE)
          ELSE page_sweep(h, p, i + 1, swept_any)

\* Mutant of page_clear_mark_bits: the mark bit is left as it is.
RECURSIVE page_clear_mark_bits_keeps_marks(_, _, _, _)
page_clear_mark_bits_keeps_marks(h, rs, p, i) ==
  IF i > capacity(h.pages[p].type) THEN [h |-> h, roots |-> rs]
  ELSE LET a == <<p, i>>
       IN page_clear_mark_bits_keeps_marks(
            h, IF is_pinned(h.mw[a]) THEN Append(rs, a) ELSE rs, p, i + 1)

\* PageHeader::clear_mark_bits, slot i onwards: acc = [h, roots].
RECURSIVE page_clear_mark_bits(_, _, _, _)
page_clear_mark_bits(h, rs, p, i) ==
  IF i > capacity(h.pages[p].type) THEN [h |-> h, roots |-> rs]
  ELSE LET a == <<p, i>>
           w == unmark(h.mw[a])
       IN page_clear_mark_bits([h EXCEPT !.mw[a] = w],
                               IF is_pinned(w) THEN Append(rs, a) ELSE rs,
                               p, i + 1)

\* Mutant of page_is_empty: a slot with a nonzero pin count counts as in use.
page_is_empty_unpinned(h, p) ==
  \A a \in PageSlots(p, h.pages[p].type) : h.mw[a] \div ALLOCATED_BIT = 0

\* PageHeader::is_empty: no slot of the page has its allocated bit set.
page_is_empty(h, p) ==
  \A a \in PageSlots(p, h.pages[p].type) : ~is_allocated(h.mw[a])

(* ------------------------------ page sets ------------------------------- *)

\* PageSet::new.
NewPageSet ==
  [page_count |-> 0, full_pages |-> NullPage, other_pages |-> NullPage,
   limit |-> NoLimit]

\* The pages of a linked list, in list order.
RECURSIVE each_page(_, _)
each_page(h, first_page) ==
  IF first_page = NullPage THEN <<>>
  ELSE <<first_page>> \o each_page(h, h.pages[first_page].next_page)

\* PageSet::each_page: the full list, then the non-full list.
set_pages(h, t) ==
  each_page(h, h.sets[t].full_pages) \o each_page(h, h.sets[t].other_pages)

\* PageSet::clear_mark_bits over the pages ps (a sequence).
RECURSIVE set_clear_mark_bits(_, _, _)
set_clear_mark_bits(h, rs, ps) ==
  IF ps = <<>> THEN [h |-> h, roots |-> rs]
  ELSE LET r == page_clear_mark_bits(h, rs, Head(ps), 1)
       IN set_clear_mark_bits(r.h, r.roots, Tail(ps))

\* First loop of PageSet::sweep: sweep the non-full pages in place.
RECURSIVE sweep_other(_, _)
sweep_other(h, page) ==
  IF page = NullPage THEN h
  ELSE LET r == page_sweep(h, page, 1, FALSE)
       IN sweep_other(r.h, r.h.pages[page].next_page)

\* Mutant of sweep_full: a full page that had a slot swept is unlinked from the
\* full list and not linked on the non-full list.
RECURSIVE sweep_full_drops_page(_, _, _, _)
sweep_full_drops_page(h, t, prev, page) ==
  IF page = NullPage THEN h
  ELSE LET r == page_sweep(h, page, 1, FALSE)
           next_page == r.h.pages[page].next_page
       IN IF r.swept_any
          THEN LET unlinked == IF prev = NullPage
                               THEN [r.h EXCEPT !.sets[t].full_pages = next_page]
                               ELSE [r.h EXCEPT !.pages[prev].next_page = next_page]
               IN sweep_full_drops_page(unlinked, t, prev, next_page)
          ELSE sweep_full_drops_page(r.h, t, page, next_page)

\* Second loop of PageSet::sweep.  prev = NullPage stands for
\* &mut self.full_pages, any other prev for &mut (*prev).next_page.
RECURSIVE sweep_full(_, _, _, _)
sweep_full(h, t, prev, page) ==
  IF page = NullPage THEN h
  ELSE LET r == page_sweep(h, page, 1, FALSE)
           next_page == r.h.pages[page].next_page
       IN IF r.swept_any
          THEN LET unlinked == IF prev = NullPage
                               THEN [r.h EXCEPT !.sets[t].full_pages = next_page]
                               ELSE [r.h EXCEPT !.pages[prev].next_page = next_page]
                   moved == [unlinked EXCEPT
                               !.pages[page].next_page = unlinked.sets[t].other_pages,
                               !.sets[t].other_pages = page]
               IN sweep_full(moved, t, prev, next_page)
          ELSE sweep_full(r.h, t, page, next_page)

\* Mutant of set_sweep: the full pages are not swept.
set_sweep_other_only(h, t) == sweep_other(h, h.sets[t].other_pages)

\* Mutant of set_sweep: the full pages are swept before the non-full ones.
set_sweep_full_first(h, t) ==
  LET h1 == sweep_full(h, t, NullPage, h.sets[t].full_pages)
  IN sweep_other(h1, h1.sets[t].other_pages)

\* PageSet::sweep.
set_sweep(h, t) ==
  LET h1 == sweep_other(h, h.sets[t].other_pages)
  IN sweep_full(h1, t, NullPage, h1.sets[t].full_pages)

\* PageSet::all_pages_are_empty.
all_pages_are_empty(h, t) ==
  LET ps == set_pages(h, t)
  IN \A k \in 1..Len(ps) : page_is_empty(h, ps[k])

\* PageSetRef::new_page: a fresh page, linked on the full list when the type's
\* capacity is 1 and on the non-full list otherwise.
new_page(h, t) ==
  LET p == Cardinality(DOMAIN h.pages) + 1
      on_full == capacity(t) = 1
      head == IF on_full THEN h.sets[t].full_pages ELSE h.sets[t].other_pages
      fresh == PageSlots(p, t)
      ext(f, v) == [a \in (DOMAIN f) \cup fresh |-> IF a \in fresh THEN v ELSE f[a]]
      h0 == [h EXCEPT
               !.pages = [q \in (DOMAIN h.pages) \cup {p} |->
                            IF q = p
                            THEN [type |-> t, next_page |-> head, freelist |-> NULL]
                            ELSE h.pages[q]],
               !.mw = ext(h.mw, MARK_WORD_INIT),
               !.mem = ext(h.mem, NULL),
               !.drops = ext(h.drops, 0)]
      h1 == init_mark_words_and_freelist(h0, p, 1)
  IN [h |-> [h1 EXCEPT !.sets[t].full_pages = IF on_full THEN p ELSE @,
                       !.sets[t].other_pages = IF on_full THEN @ ELSE p,
                       !.sets[t].page_count = @ + 1],
      page |-> p]

\* Mutant of set_try_alloc: without a non-full page the result is None, whether
\* a limit is set or not.
set_try_alloc_none_when_full(h, t) ==
  LET front_page == h.sets[t].other_pages
  IN IF front_page # NullPage
     THEN IF h.pages[front_page].freelist = NULL
          THEN [h |-> h, ptr |-> NULL, fail |-> "assert !freelist.is_null()"]
          ELSE LET r == page_try_alloc(h, front_page)
               IN IF r.fail = "" /\ r.h.pages[front_page].freelist = NULL
                  THEN [r EXCEPT
                          !.h.sets[t].other_pages = r.h.pages[front_page].next_page,
                          !.h.pages[front_page].next_page = r.h.sets[t].full_pages,
                          !.h.sets[t].full_pages = front_page]
                  ELSE r
     ELSE IF h.sets[t].page_count >= 1
          THEN [h |-> h, ptr |-> NULL, fail |-> ""]
          ELSE LET n == new_page(h, t) IN page_try_alloc(n.h, n.page)

\* Mutant of set_try_alloc: the page count is compared to the limit with >.
set_try_alloc_off_by_one(h, t) ==
  LET front_page == h.sets[t].other_pages
  IN IF front_page # NullPage
     THEN LET r == page_try_alloc(h, front_page)
          IN IF r.fail = "" /\ r.h.pages[front_page].freelist = NULL
             THEN [r EXCEPT
                     !.h.sets[t].other_pages = r.h.pages[front_page].next_page,
                     !.h.pages[front_page].next_page = r.h.sets[t].full_pages,
                     !.h.sets[t].full_pages = front_page]
             ELSE r
     ELSE IF h.sets[t].limit # NoLimit /\ h.sets[t].page_count > h.sets[t].limit
          THEN [h |-> h, ptr |-> NULL, fail |-> ""]
          ELSE LET n == new_page(h, t) IN page_try_alloc(n.h, n.page)

\* PageSetRef::try_alloc.  ptr = NULL is None; fail names a failed assertion.
set_try_alloc(h, t) ==
  LET front_page == h.sets[t].other_pages
  IN IF front_page # NullPage
     THEN IF h.pages[front_page].freelist = NULL
          THEN [h |-> h, ptr |-> NULL, fail |-> "assert !freelist.is_null()"]
          ELSE LET r == page_try_alloc(h, front_page)
               IN IF r.fail = "" /\ r.h.pages[front_page].freelist = NULL
                  THEN [r EXCEPT
                          !.h.sets[t].other_pages = r.h.pages[front_page].next_page,
                          !.h.pages[front_page].next_page = r.h.sets[t].full_pages,
                          !.h.sets[t].full_pages = front_page]
                  ELSE r
     ELSE IF h.sets[t].limit # NoLimit /\ h.sets[t].page_count >= h.sets[t].limit
          THEN [h |-> h, ptr |-> NULL, fail |-> ""]
          ELSE LET n == new_page(h, t) IN page_try_alloc(n.h, n.page)

\* GcHeapSession::get_page_set: the entry of the map, created when absent.
get_page_set(h, t) ==
  IF t \in DOMAIN h.sets THEN h
  ELSE [h EXCEPT !.sets = [u \in (DOMAIN h.sets) \cup {t} |->
                             IF u = t THEN NewPageSet ELSE h.sets[u]]]

(* -------------------------------- heap ---------------------------------- *)

\* Every address the operating system can hand out within the bounds.
AllAddrs ==
  {<<p, i>> : p \in 1..MaxSlots, i \in 1..Max(capacity("Pair"), capacity("Big"))}

\* The type of the page a slot lies in (PageHeader::find).
TypeOfSlot(h, a) == h.pages[a[1]].type

\* The page sets of the map in iteration order (HashMap::values_mut).
SetOrder(h) ==
  LET in(t) == IF t \in DOMAIN h.sets THEN <<t>> ELSE <<>>
  IN in("Pair") \o in("Big") \o in("Huge") \o in("Odd")

\* MarkWord::unpin behind pages::unpin and pages::unpin_untyped, with its two
\* debug assertions.
unpin_slot(h, a) ==
  IF a \notin DOMAIN h.mw \/ ~is_allocated(h.mw[a])
  THEN [h |-> h, fail |-> "debug_assert is_allocated (unpin)"]
  ELSE IF ~is_pinned(h.mw[a])
       THEN [h |-> h, fail |-> "debug_assert is_pinned (unpin)"]
       ELSE [h |-> [h EXCEPT !.mw[a] = unpin(@)], fail |-> ""]

\* MarkWord::pin behind pages::pin, with its debug assertion.
pin_slot(h, a) ==
  IF a \notin DOMAIN h.mw \/ ~is_allocated(h.mw[a])
  THEN [h |-> h, fail |-> "debug_assert is_allocated (pin)"]
  ELSE [h |-> [h EXCEPT !.mw[a] = pin(@)], fail |-> ""]

\* Mutant of unpin_each: only the first address of the vector is unpinned.
unpin_first_only(h, ps) ==
  IF ps = <<>> THEN [h |-> h, fail |-> ""] ELSE unpin_slot(h, Head(ps))

\* Mutant of unpin_each: every address of the vector is unpinned twice.
RECURSIVE unpin_each_twice(_, _)
unpin_each_twice(h, ps) ==
  IF ps = <<>> THEN [h |-> h, fail |-> ""]
  ELSE LET r == unpin_slot(h, Head(ps))
           r2 == IF r.fail # "" THEN r ELSE unpin_slot(r.h, Head(ps))
       IN IF r2.fail # "" THEN r2 ELSE unpin_each_twice(r2.h, Tail(ps))

\* The loop of GcHeap::unpin_dropped_ptrs over the swapped-out vector.
RECURSIVE unpin_each(_, _)
unpin_each(h, ps) ==
  IF ps = <<>> THEN [h |-> h, fail |-> ""]
  ELSE LET r == unpin_slot(h, Head(ps))
       IN IF r.fail # "" THEN r ELSE unpin_each(r.h, Tail(ps))

\* GcHeap::clear_mark_bits over the page sets ts (a sequence of types).
RECURSIVE heap_clear_mark_bits(_, _, _)
heap_clear_mark_bits(h, rs, ts) ==
  IF ts = <<>> THEN [h |-> h, roots |-> rs]
  ELSE LET r == set_clear_mark_bits(h, rs, set_pages(h, Head(ts)))
       IN heap_clear_mark_bits(r.h, r.roots, Tail(ts))

\* The sweep loop of GcHeap::gc_cycle over the page sets ts.
RECURSIVE heap_sweep(_, _)
heap_sweep(h, ts) ==
  IF ts = <<>> THEN h ELSE heap_sweep(set_sweep(h, Head(ts)), Tail(ts))

\* GcHeap::is_empty.
heap_is_empty(h) == \A t \in DOMAIN h.sets : all_pages_are_empty(h, t)

(* ------------------------------ marking --------------------------------- *)

\* T::trace: the heap pointers of the value in slot a.
edges(h, a) ==
  IF HasPointer(TypeOfSlot(h, a)) /\ h.mem[a] # NULL THEN <<h.mem[a]>> ELSE <<>>

\* The tracer at the start of a marking phase over the heap h.  pushed and
\* traced are logs, not tracer state: the slots pushed on the stack and the
\* slots whose edges were enumerated, in order.
NewTracer(h) == [h |-> h, stack |-> <<>>, pushed |-> <<>>, traced |-> <<>>]

\* Mutant of visit: an unmarked slot is pushed twice.
visit_pushes_twice(st, a) ==
  IF is_marked(st.h.mw[a]) THEN st
  ELSE [st EXCEPT !.h.mw[a] = mark(@), !.stack = <<a, a>> \o @,
                  !.pushed = @ \o <<a, a>>]

\* MarkingTracer::visit: an unmarked slot is marked and pushed on the stack.
visit(st, a) ==
  IF is_marked(st.h.mw[a]) THEN st
  ELSE [st EXCEPT !.h.mw[a] = mark(@), !.stack = <<a>> \o @, !.pushed = Append(@, a)]

RECURSIVE visit_all(_, _)
visit_all(st, es) ==
  IF es = <<>> THEN st ELSE visit_all(visit(st, Head(es)), Tail(es))

\* mark_entry_point: a marked slot has its edges enumerated, an unmarked one is
\* marked and pushed.
mark_entry_point(st, a) ==
  IF is_marked(st.h.mw[a])
  THEN visit_all([st EXCEPT !.traced = Append(@, a)], edges(st.h, a))
  ELSE visit(st, a)

RECURSIVE mark_roots(_, _)
mark_roots(st, rs) ==
  IF rs = <<>> THEN st ELSE mark_roots(mark_entry_point(st, Head(rs)), Tail(rs))

\* The tracer's loop: pop a gray slot and enumerate its edges, to fixpoint.
RECURSIVE mark_to_fixpoint(_)
mark_to_fixpoint(st) ==
  IF st.stack = <<>> THEN st
  ELSE mark_to_fixpoint(
         mark_entry_point([st EXCEPT !.stack = Tail(@)], Head(st.stack)))

\* Mutant of marking_mark: the dropping flag is ignored.
marking_mark_always(h, rs, dropping) ==
  mark_to_fixpoint(mark_roots(NewTracer(h), rs))

\* The marking phase over the roots vector; nothing is marked when dropping.
marking_mark(h, rs, dropping) ==
  IF dropping THEN NewTracer(h)
  ELSE mark_to_fixpoint(mark_roots(NewTracer(h), rs))

\* GcHeap::gc_cycle as one function of the heap, given the vector ptrs taken
\* from the queue: unpin, clear and mark, sweep.
gc_cycle(h, ptrs, dropping) ==
  LET u == unpin_each(h, ptrs)
      c == heap_clear_mark_bits(u.h, <<>>, SetOrder(u.h))
      m == marking_mark(c.h, c.roots, dropping)
  IN heap_sweep(m.h, SetOrder(m.h))

(* ------------------------------ actions --------------------------------- *)

SetHeap(h) ==
  /\ pages' = h.pages
  /\ mw' = h.mw
  /\ mem' = h.mem
  /\ drops' = h.drops
  /\ page_sets' = h.sets

\* A failed assertion or expect: the thread panics and the run ends here.
PanicWith(msg) ==
  /\ panic' = msg
  /\ pc' = "panicked"
  /\ UNCHANGED <<heapVars, gcVars, hostVars, otherVars, marking_tracer,
                 dropped_frozen_ptrs, arc_alive, pending, ret>>

Idle == pc = "idle"

Held(a) == a \in AllAddrs /\ refs[a] > 0

\* Sum of the pin counts of the slots in S.
RECURSIVE PinSum(_)
PinSum(S) ==
  IF S = {} THEN 0
  ELSE LET a == CHOOSE x \in S : TRUE IN PinCount(mw[a]) + PinSum(S \ {a})

TotalPins == PinSum(Slots)

\* The host program allocates values of one heap type in a run.
OneType(t) == DOMAIN page_sets \subseteq {t}

\* First statement of GcHeap::gc_cycle: unpin_dropped_ptrs takes the lock and
\* swaps the queue for an empty vector; the MutexGuard is still alive.
StartGc(caller) ==
  /\ guard = ""
  /\ dropped_ptrs' = dropped_frozen_ptrs
  /\ guard' = "heap"
  /\ unpinned' = <<>>
  /\ dropped_frozen_ptrs' = <<>>
  /\ gc_caller' = caller
  /\ pc' = "swap"

\* ptr::write of the value and GcRef::new on the slot try_alloc obtained.
store_and_pin(h, p, child) ==
  pin_slot([h EXCEPT !.mem[p] = child, !.drops[p] = 0], p)

\* IntoHeap::into_heap of the value: the GcRef it holds is dropped.
into_heap(h, child) ==
  IF child = NULL THEN [h |-> h, fail |-> ""] ELSE unpin_slot(h, child)

\* Mutant of from_heap: the rebuilt value holds no GcRef to the pointee.
from_heap_no_pin(h, child) == [h |-> h, fail |-> ""]

\* IntoHeap::from_heap of the in-heap form: a new GcRef to its pointee.
from_heap(h, child) ==
  IF child = NULL THEN [h |-> h, fail |-> ""] ELSE pin_slot(h, child)

\* GcHeapSession::try_alloc up to its first PageSetRef::try_alloc; when that
\* returns None the children are re-pinned and the collection starts.
TryAlloc(t, child) ==
  /\ Idle
  /\ OneType(t)
  /\ child = NULL \/ (HasPointer(t) /\ Held(child))
  /\ child = NULL => TotalPins < MaxPins
  /\ LET u == into_heap(Heap, child)
         r == set_try_alloc(get_page_set(u.h, t), t)
         held == IF child = NULL THEN refs ELSE [refs EXCEPT ![child] = @ - 1]
     IN /\ Cardinality(DOMAIN r.h.mw) <= MaxSlots
        /\ IF u.fail # "" THEN PanicWith(u.fail)
           ELSE IF r.fail # "" THEN PanicWith(r.fail)
           ELSE IF r.ptr # NULL
           THEN LET w == store_and_pin(r.h, r.ptr, child)
                IN /\ SetHeap(w.h)
                   /\ refs' = [held EXCEPT ![r.ptr] = @ + 1]
                   /\ ret' = [kind |-> "some", ptr |-> r.ptr]
                   /\ UNCHANGED <<gcVars, otherVars, marking_tracer, dropped_frozen_ptrs,
                                  arc_alive, pc, pending, frozen, leaked, panic>>
           ELSE LET v == from_heap(r.h, child)
                IN /\ SetHeap(v.h)
                   /\ refs' = held
                   /\ pending' = [type |-> t, child |-> child]
                   /\ ret' = NoRet
                   /\ StartGc("alloc")
                   /\ UNCHANGED <<otherVars, marking_tracer, arc_alive, roots, frozen,
                                  leaked, panic>>

MisalignedAccess == "misaligned pointer dereference"

\* GcHeapSession::try_alloc of a type whose pages hold a misaligned mark word,
\* when it has to build a page: the write through the misaligned pointer in
\* init_mark_words_and_freelist is undefined behaviour; a build that checks
\* pointer alignment panics there (this action), another build goes on
\* (TryAlloc).
MisalignedPage(t) ==
  /\ Idle
  /\ OneType(t)
  /\ ~HasPointer(t)
  /\ HasMisalignedMarkWord(t)
  /\ LET h == get_page_set(Heap, t)
     IN /\ h.sets[t].other_pages = NullPage
        /\ ~(h.sets[t].limit # NoLimit /\ h.sets[t].page_count >= h.sets[t].limit)
        /\ Cardinality(DOMAIN h.mw) + capacity(t) <= MaxSlots
        /\ SetHeap(h)
  /\ panic' = MisalignedAccess
  /\ pc' = "panicked"
  /\ UNCHANGED <<gcVars, hostVars, otherVars, marking_tracer, dropped_frozen_ptrs,
                 arc_alive, pending, ret>>

\* GcHeapSession::try_alloc after the collection: the value is converted again
\* and the allocation retried once.
AllocRetry ==
  /\ pc = "retry"
  /\ LET u == into_heap(Heap, pending.child)
         r == set_try_alloc(get_page_set(u.h, pending.type), pending.type)
     IN /\ Cardinality(DOMAIN r.h.mw) <= MaxSlots
        /\ IF u.fail # "" THEN PanicWith(u.fail)
           ELSE IF r.fail # "" THEN PanicWith(r.fail)
           ELSE /\ pending' = NoPending
                /\ pc' = "idle"
                /\ UNCHANGED <<gcVars, otherVars, marking_tracer, dropped_frozen_ptrs,
                               arc_alive, frozen, leaked, panic>>
                /\ IF r.ptr # NULL
                   THEN LET w == store_and_pin(r.h, r.ptr, pending.child)
                        IN /\ SetHeap(w.h)
                           /\ refs' = [refs EXCEPT ![r.ptr] = @ + 1]
                           /\ ret' = [kind |-> "some", ptr |-> r.ptr]
                   ELSE /\ SetHeap(r.h)
                        /\ refs' = refs
                        /\ ret' = [kind |-> "none", ptr |-> NULL]

\* GcRef::clone: pin again.
CloneRef(a) ==
  /\ Idle
  /\ Held(a)
  /\ TotalPins < MaxPins
  /\ LET r == pin_slot(Heap, a)
     IN IF r.fail # "" THEN PanicWith(r.fail)
        ELSE /\ SetHeap(r.h)
             /\ refs' = [refs EXCEPT ![a] = @ + 1]
             /\ ret' = NoRet
             /\ UNCHANGED <<gcVars, otherVars, marking_tracer, dropped_frozen_ptrs,
                            arc_alive, pc, pending, frozen, leaked, panic>>

\* GcRef::drop: unpin.
DropRef(a) ==
  /\ Idle
  /\ Held(a)
  /\ LET r == unpin_slot(Heap, a)
     IN IF r.fail # "" THEN PanicWith(r.fail)
        ELSE /\ SetHeap(r.h)
             /\ refs' = [refs EXCEPT ![a] = @ - 1]
             /\ ret' = NoRet
             /\ UNCHANGED <<gcVars, otherVars, marking_tracer, dropped_frozen_ptrs,
                            arc_alive, pc, pending, frozen, leaked, panic>>

\* mem::forget of a GcRef: the handle goes away and the pin stays.
LeakRef(a) ==
  /\ Idle
  /\ Held(a)
  /\ refs' = [refs EXCEPT ![a] = @ - 1]
  /\ leaked' = [leaked EXCEPT ![a] = @ + 1]
  /\ ret' = NoRet
  /\ UNCHANGED <<heapVars, gcVars, otherVars, marking_tracer, dropped_frozen_ptrs,
                 arc_alive, pc, pending, frozen, panic>>

\* A field setter of the derived reference type: the receiver stays borrowed,
\* the GcRef in the new value is moved into the heap.
WriteField(a, child) ==
  /\ Idle
  /\ Held(a)
  /\ HasPointer(TypeOfSlot(Heap, a))
  /\ child = NULL \/ (Held(child) /\ (child = a => refs[a] >= 2))
  /\ LET u == into_heap(Heap, child)
     IN IF u.fail # "" THEN PanicWith(u.fail)
        ELSE /\ SetHeap([u.h EXCEPT !.mem[a] = child])
             /\ refs' = IF child = NULL THEN refs ELSE [refs EXCEPT ![child] = @ - 1]
             /\ ret' = [kind |-> "write", ptr |-> a]
             /\ UNCHANGED <<gcVars, otherVars, marking_tracer, dropped_frozen_ptrs,
                            arc_alive, pc, pending, frozen, leaked, panic>>

\* A field getter of the derived reference type: from_heap pins the pointee.
ReadField(a) ==
  /\ Idle
  /\ Held(a)
  /\ HasPointer(TypeOfSlot(Heap, a))
  /\ mem[a] # NULL
  /\ TotalPins < MaxPins
  /\ LET r == from_heap(Heap, mem[a])
     IN IF r.fail # "" THEN PanicWith(r.fail)
        ELSE /\ SetHeap(r.h)
             /\ refs' = [refs EXCEPT ![mem[a]] = @ + 1]
             /\ ret' = NoRet
             /\ UNCHANGED <<gcVars, otherVars, marking_tracer, dropped_frozen_ptrs,
                            arc_alive, pc, pending, frozen, leaked, panic>>

\* PageSet::set_page_limit.
set_page_limit(h, t, limit) == [h EXCEPT !.sets[t].limit = limit]

\* GcHeapSession::set_page_limit.
SetPageLimit(t, limit) ==
  /\ Idle
  /\ OneType(t)
  /\ SetHeap(set_page_limit(get_page_set(Heap, t), t, limit))
  /\ ret' = [kind |-> "limit", ptr |-> NULL]
  /\ UNCHANGED <<gcVars, hostVars, otherVars, marking_tracer, dropped_frozen_ptrs,
                 arc_alive, pc, pending, panic>>

\* Mutant of check_id: the identities are not compared.
check_id_no_ptr_eq(heap_id) ==
  IF ~(IF heap_id = "H" THEN arc_alive ELSE other_arc_alive)
  THEN "can't thaw a reference into a heap that has been dropped"
  ELSE ""

\* GcHeap::check_id on the identity heap_id ("H" is this heap, "G" the second
\* one): the message of the panic, or "" when the check passes.
check_id(heap_id) ==
  IF ~(IF heap_id = "H" THEN arc_alive ELSE other_arc_alive)
  THEN "can't thaw a reference into a heap that has been dropped"
  ELSE IF heap_id # "H"
       THEN "can't thaw a frozen reference into a different heap"
       ELSE ""

\* Mutant of frozen_new: the GcRef is dropped, which unpins the slot.
frozen_new_unpins(h, a) == unpin_slot(h, a).h

\* GcFrozenRef::new: the GcRef is consumed without being unpinned.
frozen_new(h, a) == h

\* Mutant of frozen_thaw: the slot is pinned once more for the new GcRef.
frozen_thaw_repin(h, a) == pin_slot(h, a).h

\* GcFrozenRef::thaw after the identity check: the pin of the frozen reference
\* becomes the pin of the GcRef it returns.
frozen_thaw(h, a) == h

\* GcHeapSession::freeze: the GcRef becomes a GcFrozenRef, the pin stays.
Freeze(a) ==
  /\ Idle
  /\ Held(a)
  /\ SetHeap(frozen_new(Heap, a))
  /\ refs' = [refs EXCEPT ![a] = @ - 1]
  /\ frozen' = [frozen EXCEPT ![a] = @ + 1]
  /\ ret' = NoRet
  /\ UNCHANGED <<gcVars, otherVars, marking_tracer, dropped_frozen_ptrs, arc_alive,
                 pc, pending, leaked, panic>>

\* GcHeapSession::thaw of a reference frozen in this heap.
Thaw(a) ==
  /\ Idle
  /\ a \in AllAddrs /\ frozen[a] > 0
  /\ IF check_id("H") # "" THEN PanicWith(check_id("H"))
     ELSE /\ SetHeap(frozen_thaw(Heap, a))
          /\ frozen' = [frozen EXCEPT ![a] = @ - 1]
          /\ refs' = [refs EXCEPT ![a] = @ + 1]
          /\ ret' = [kind |-> "thaw", ptr |-> a]
          /\ UNCHANGED <<gcVars, otherVars, marking_tracer, dropped_frozen_ptrs,
                         arc_alive, pc, pending, leaked, panic>>

\* The address a reference frozen in the second heap carries.
OtherPtr == <<1, 1>>

\* GcHeapSession::thaw, in this heap's session, of a reference frozen in the
\* second heap.
ThawOther ==
  /\ Idle
  /\ other_frozen > 0
  /\ IF check_id("G") # "" THEN PanicWith(check_id("G"))
     ELSE /\ SetHeap(frozen_thaw(Heap, OtherPtr))
          /\ other_frozen' = other_frozen - 1
          /\ refs' = [refs EXCEPT ![OtherPtr] = @ + 1]
          /\ ret' = [kind |-> "thaw", ptr |-> OtherPtr]
          /\ UNCHANGED <<gcVars, marking_tracer, dropped_frozen_ptrs, arc_alive,
                         other_arc_alive, pc, pending, frozen, leaked, panic>>

\* The second heap is dropped while the host still holds a reference frozen
\* in it.
OtherHeapDrop ==
  /\ pc # "panicked"
  /\ other_arc_alive
  /\ other_frozen > 0
  /\ other_arc_alive' = FALSE
  /\ UNCHANGED <<heapVars, gcVars, hostVars, marking_tracer, dropped_frozen_ptrs,
                 arc_alive, pc, pending, other_frozen, ret, panic>>

\* Mutant of drop_frozen_ptr: the address is pushed twice.
drop_frozen_ptr_twice(alive, q, a) == IF alive THEN Append(Append(q, a), a) ELSE q

\* GcHeap::drop_frozen_ptr on the queue q: the address is pushed when the Weak
\* upgrades, and nothing is done otherwise.
drop_frozen_ptr(alive, q, a) == IF alive THEN Append(q, a) ELSE q

\* GcFrozenRef::drop on any thread: GcHeap::drop_frozen_ptr pushes the address
\* under the lock if the heap still exists and does nothing otherwise; it
\* waits while the heap thread holds the lock.
FrozenDrop(a) ==
  /\ pc # "panicked"
  /\ a \in AllAddrs /\ frozen[a] > 0
  /\ guard = ""
  /\ frozen' = [frozen EXCEPT ![a] = @ - 1]
  /\ dropped_frozen_ptrs' = drop_frozen_ptr(arc_alive, dropped_frozen_ptrs, a)
  /\ UNCHANGED <<heapVars, gcVars, otherVars, marking_tracer, arc_alive, pc,
                 pending, refs, leaked, ret, panic>>

\* GcHeapSession::force_gc.
ForceGc ==
  /\ Idle
  /\ StartGc("force")
  /\ ret' = NoRet
  /\ UNCHANGED <<heapVars, hostVars, otherVars, marking_tracer, arc_alive, roots,
                 pending, panic>>

\* Mutant of drop_guard: the MutexGuard outlives the block.
drop_guard_late(g) == g

\* The MutexGuard goes out of scope: the mutex is released.
drop_guard(g) == ""

\* End of the block of GcHeap::unpin_dropped_ptrs that holds the MutexGuard.
GcUnlock ==
  /\ pc = "swap"
  /\ guard' = drop_guard(guard)
  /\ pc' = "unpin"
  /\ UNCHANGED <<heapVars, hostVars, otherVars, marking_tracer, dropped_frozen_ptrs,
                 arc_alive, gc_caller, dropped_ptrs, unpinned, roots, pending, ret,
                 panic>>

\* Second half of GcHeap::unpin_dropped_ptrs: unpin every swapped-out address.
GcUnpin ==
  /\ pc = "unpin"
  /\ LET r == unpin_each(Heap, dropped_ptrs)
     IN IF r.fail # "" THEN PanicWith(r.fail)
        ELSE /\ SetHeap(r.h)
             /\ dropped_ptrs' = <<>>
             /\ unpinned' = dropped_ptrs
             /\ pc' = "clear"
             /\ UNCHANGED <<hostVars, otherVars, marking_tracer, dropped_frozen_ptrs,
                            arc_alive, gc_caller, guard, roots, pending, ret, panic>>

NestedGC == "attempted nested GC"

\* GcHeap::take_marking_tracer on the Option t (TRUE is Some): the Option left
\* in the heap, and the message of the panic when it was None.
take_marking_tracer(t) ==
  [tracer |-> FALSE, fail |-> IF t THEN "" ELSE NestedGC]

\* Mutant of replace_marking_tracer: the tracer is not put back.
replace_marking_tracer_forgets(t) ==
  [tracer |-> FALSE, fail |-> IF t THEN "assert marking_tracer.is_none()" ELSE ""]

\* GcHeap::replace_marking_tracer on the Option t: the Option left in the heap,
\* and the assertion that failed when it was Some.
replace_marking_tracer(t) ==
  [tracer |-> TRUE, fail |-> IF t THEN "assert marking_tracer.is_none()" ELSE ""]

\* marking::mark, first half: the tracer is taken out of the heap and
\* GcHeap::clear_mark_bits builds the roots vector.
GcClearMarkBits ==
  /\ pc = "clear"
  /\ IF take_marking_tracer(marking_tracer).fail # ""
     THEN PanicWith(take_marking_tracer(marking_tracer).fail)
     ELSE LET r == heap_clear_mark_bits(Heap, <<>>, SetOrder(Heap))
          IN /\ SetHeap(r.h)
             /\ roots' = r.roots
             /\ marking_tracer' = take_marking_tracer(marking_tracer).tracer
             /\ pc' = "trace"
             /\ UNCHANGED <<hostVars, otherVars, dropped_frozen_ptrs, arc_alive,
                            gc_caller, dropped_ptrs, guard, unpinned, pending, ret, panic>>

\* marking::mark, second half: trace from the roots unless dropping, then
\* GcHeap::replace_marking_tracer.
GcTrace ==
  /\ pc = "trace"
  /\ LET st == marking_mark(Heap, roots, gc_caller = "drop")
     IN IF replace_marking_tracer(marking_tracer).fail # ""
        THEN PanicWith(replace_marking_tracer(marking_tracer).fail)
        ELSE IF st.stack # <<>> THEN PanicWith("assert mark_stack_is_empty()")
        ELSE /\ SetHeap(st.h)
             /\ roots' = <<>>
             /\ marking_tracer' = replace_marking_tracer(marking_tracer).tracer
             /\ pc' = "sweep"
             /\ UNCHANGED <<hostVars, otherVars, dropped_frozen_ptrs, arc_alive,
                            gc_caller, dropped_ptrs, guard, unpinned, pending, ret, panic>>

\* A gc_cycle entered from inside the marking phase (a trace function that
\* calls back into the heap): unpin_dropped_ptrs drains the queue, then
\* marking::mark finds the tracer taken and take_marking_tracer panics.
NestedGc ==
  /\ pc = "trace"
  /\ guard = ""
  /\ LET r == unpin_each(Heap, dropped_frozen_ptrs)
         t == take_marking_tracer(marking_tracer)
     IN /\ SetHeap(r.h)
        /\ dropped_frozen_ptrs' = <<>>
        /\ panic' = IF r.fail # "" THEN r.fail ELSE t.fail
        /\ pc' = IF r.fail # "" \/ t.fail # "" THEN "panicked" ELSE "clear"
        /\ marking_tracer' = IF r.fail # "" \/ t.fail # "" THEN marking_tracer ELSE t.tracer
        /\ UNCHANGED <<gcVars, hostVars, otherVars, arc_alive, pending, ret>>

\* The sweep loop of GcHeap::gc_cycle; control then returns to the caller.
GcSweep ==
  /\ pc = "sweep"
  /\ SetHeap(heap_sweep(Heap, SetOrder(Heap)))
  /\ pc' = IF gc_caller = "force" THEN "idle"
           ELSE IF gc_caller = "alloc" THEN "retry" ELSE "assert"
  /\ ret' = IF gc_caller = "force" THEN [kind |-> "gc", ptr |-> NULL] ELSE ret
  /\ unpinned' = <<>>
  /\ UNCHANGED <<gc_caller, dropped_ptrs, guard, roots, hostVars, otherVars, marking_tracer, dropped_frozen_ptrs,
                 arc_alive, pending, panic>>

\* The session ends with no GcRef left and the heap is dropped:
\* <GcHeap as Drop>::drop starts gc_cycle(true).
HeapDrop ==
  /\ Idle
  /\ \A a \in AllAddrs : refs[a] = 0
  /\ StartGc("drop")
  /\ ret' = NoRet
  /\ UNCHANGED <<heapVars, hostVars, otherVars, marking_tracer, arc_alive, roots,
                 pending, panic>>

\* The assertions of <GcHeap as Drop>::drop after the cycle.
DropAssert ==
  /\ pc = "assert"
  /\ IF ~heap_is_empty(Heap) THEN PanicWith("assert all_pages_are_empty()")
     ELSE /\ pc' = "fields"
          /\ UNCHANGED <<heapVars, gcVars, hostVars, otherVars, marking_tracer,
                         dropped_frozen_ptrs, arc_alive, pending, ret, panic>>

\* <PageSet as Drop>::drop over the pages ps: clear the page's mark bits into a
\* discarded vector, sweep it, release it.
RECURSIVE page_set_drop(_, _)
page_set_drop(h, ps) ==
  IF ps = <<>> THEN h
  ELSE LET c == page_clear_mark_bits(h, <<>>, Head(ps), 1)
           r == page_sweep(c.h, Head(ps), 1, FALSE)
       IN page_set_drop(r.h, Tail(ps))

RECURSIVE page_sets_drop(_, _)
page_sets_drop(h, ts) ==
  IF ts = <<>> THEN h
  ELSE page_sets_drop(page_set_drop(h, set_pages(h, Head(ts))), Tail(ts))

\* The fields of GcHeap are dropped: every page set destroys and releases its
\* pages, then the last strong owner of the queue goes away.
DropFields ==
  /\ pc = "fields"
  /\ LET h == page_sets_drop(Heap, SetOrder(Heap))
     IN /\ drops' = h.drops
        /\ pages' = <<>>
        /\ mw' = <<>>
        /\ mem' = <<>>
        /\ page_sets' = <<>>
  /\ marking_tracer' = FALSE
  /\ dropped_frozen_ptrs' = <<>>
  /\ arc_alive' = FALSE
  /\ pc' = "dropped"
  /\ UNCHANGED <<gcVars, hostVars, otherVars, pending, ret, panic>>

(* --------------------------- specification ------------------------------ *)

\* GcHeap::new followed by GcHeap::enter: an empty heap with an open session.
InitHeap ==
  /\ pages = <<>>
  /\ mw = <<>>
  /\ mem = <<>>
  /\ drops = <<>>
  /\ page_sets = <<>>
  /\ marking_tracer = TRUE
  /\ dropped_frozen_ptrs = <<>>
  /\ arc_alive = TRUE
  /\ pc = "idle"
  /\ gc_caller = ""
  /\ dropped_ptrs = <<>>
  /\ guard = ""
  /\ unpinned = <<>>
  /\ roots = <<>>
  /\ pending = NoPending
  /\ refs = [a \in AllAddrs |-> 0]
  /\ frozen = [a \in AllAddrs |-> 0]
  /\ leaked = [a \in AllAddrs |-> 0]
  /\ ret = NoRet
  /\ panic = ""

Init ==
  /\ InitHeap
  /\ other_arc_alive = FALSE
  /\ other_frozen = 0

\* The limits the host passes to set_page_limit.
Limits == {NoLimit} \cup 0..MaxSlots

Next ==
  \/ \E t \in HeapTypes, child \in AllAddrs \cup {NULL} : TryAlloc(t, child)
  \/ \E t \in HeapTypes : MisalignedPage(t)
  \/ AllocRetry
  \/ \E a \in AllAddrs : CloneRef(a)
  \/ \E a \in AllAddrs : DropRef(a)
  \/ \E a \in AllAddrs : LeakRef(a)
  \/ \E a \in AllAddrs, child \in AllAddrs \cup {NULL} : WriteField(a, child)
  \/ \E a \in AllAddrs : ReadField(a)
  \/ \E t \in HeapTypes, limit \in Limits : SetPageLimit(t, limit)
  \/ \E a \in AllAddrs : Freeze(a)
  \/ \E a \in AllAddrs : Thaw(a)
  \/ \E a \in AllAddrs : FrozenDrop(a)
  \/ ForceGc
  \/ GcUnlock
  \/ GcUnpin
  \/ GcClearMarkBits
  \/ GcTrace
  \/ NestedGc
  \/ GcSweep
  \/ HeapDrop
  \/ DropAssert
  \/ DropFields

Spec == Init /\ [][Next]_vars

\* Two heaps: a reference was frozen in the second heap's session and handed to
\* the thread that now runs this heap's session.
InitTwoHeaps ==
  /\ InitHeap
  /\ other_arc_alive = TRUE
  /\ other_frozen = 1

\* The session of the two-heap runs allocates, drops, freezes, thaws and
\* collects.
NextTwoHeaps ==
  \/ \E t \in HeapTypes : TryAlloc(t, NULL)
  \/ AllocRetry
  \/ \E a \in AllAddrs : DropRef(a)
  \/ \E a \in AllAddrs : Freeze(a)
  \/ \E a \in AllAddrs : Thaw(a)
  \/ \E a \in AllAddrs : FrozenDrop(a)
  \/ \E t \in HeapTypes : SetPageLimit(t, 1)
  \/ ForceGc
  \/ GcUnlock
  \/ GcUnpin
  \/ GcClearMarkBits
  \/ GcTrace
  \/ GcSweep
  \/ HeapDrop
  \/ DropAssert
  \/ DropFields
  \/ ThawOther
  \/ OtherHeapDrop

SpecTwoHeaps == InitTwoHeaps /\ [][NextTwoHeaps]_vars

(* ------------------------------- claims --------------------------------- *)

\* The slots whose pin count is nonzero.
PinnedSlots == {a \in Slots : PinCount(mw[a]) > 0}

\* The heap pointer stored in an allocated slot, as a set.
Pointee(a) ==
  IF is_allocated(mw[a]) /\ HasPointer(pages[a[1]].type) /\ mem[a] # NULL
  THEN {mem[a]} ELSE {}

\* The slots reachable through heap edges from the slots in S.
RECURSIVE ReachFrom(_)
ReachFrom(S) ==
  LET T == S \cup UNION {Pointee(a) : a \in S}
  IN IF T = S THEN S ELSE ReachFrom(T)

\* The session is between operations right after a completed force_gc.
AfterForceGc == pc = "idle" /\ ret.kind = "gc"

\* A non-dropping cycle is in progress or the session is open.
InSession ==
  /\ pc \in {"idle", "swap", "unpin", "clear", "trace", "sweep", "retry"}
  /\ (pc = "idle" \/ gc_caller # "drop")

\* C1: after a completed force_gc (and after the cycle a try_alloc ran), a slot
\* has its allocated bit set if and only if it is reachable through heap edges
\* from a slot whose pin count is nonzero.
C1_AllocatedIffReachable ==
  (AfterForceGc \/ pc = "retry") =>
    \A a \in Slots : is_allocated(mw[a]) <=> a \in ReachFrom(PinnedSlots)

\* C1 witness: a force_gc has completed that destroyed one value and kept a
\* pinned one.
C1_Witness ==
  /\ AfterForceGc
  /\ \E a \in Slots : ~is_allocated(mw[a]) /\ drops[a] = 1
  /\ \E a \in Slots : is_allocated(mw[a]) /\ PinCount(mw[a]) > 0

\* The elements of a sequence.
Range(q) == {q[k] : k \in 1..Len(q)}

\* C2, state part: the roots vector of a non-dropping cycle holds exactly the
\* slots whose pin count is nonzero.
C2_RootsArePinned ==
  (pc = "trace" /\ gc_caller # "drop") => Range(roots) = PinnedSlots

\* C2, step part: no step of a non-dropping cycle after the drain (short of a
\* panic that ends the run) frees, rewrites, destroys or unpins a slot whose
\* pin count is nonzero.
C2_Step ==
  (pc \in {"clear", "trace", "sweep"} /\ gc_caller # "drop" /\ pc' # "panicked") =>
    \A a \in PinnedSlots :
      /\ is_allocated(mw'[a])
      /\ PinCount(mw'[a]) = PinCount(mw[a])
      /\ mem'[a] = mem[a]
      /\ drops'[a] = 0

\* C2: a slot pinned more often than unpinned is a root of every non-dropping
\* cycle and is allocated with the same value after it; a slot whose pin count
\* is back to zero is no root.
C2_PinnedSurvives == [](C2_RootsArePinned) /\ [][C2_Step]_vars

\* C2 witness: a force_gc has completed with one slot pinned twice, by a held
\* GcRef and by a frozen reference.
C2_Witness ==
  /\ AfterForceGc
  /\ \E a \in Slots : /\ PinCount(mw[a]) = 2 /\ refs[a] = 1 /\ frozen[a] = 1
                      /\ is_allocated(mw[a])

\* C3, state part: no value has its destructor run twice, and no live value
\* has been destroyed.
C3_AtMostOnce ==
  \A a \in DOMAIN drops :
    /\ drops[a] <= 1
    /\ (a \in Slots /\ is_allocated(mw[a])) => drops[a] = 0

\* C3, step part: the sweep of a cycle destroys every allocated slot that is
\* unreachable (every allocated slot when dropping), and no other step runs a
\* destructor.
C3_Step ==
  /\ (pc = "sweep" /\ pc' # "sweep") =>
       \A a \in Slots :
         (is_allocated(mw[a]) /\ (gc_caller = "drop" \/ a \notin ReachFrom(PinnedSlots)))
           => (drops'[a] = 1 /\ ~is_allocated(mw'[a]))
  /\ (pc \notin {"sweep", "fields"} \/ pc' = pc) =>
       \A a \in DOMAIN drops : drops'[a] <= drops[a]

\* C3: a value's destructor runs in the sweep of the first cycle after it
\* became unreachable, and at most once over the life of the heap, the
\* drop-time cycle and the destruction of the page sets included.
C3_DestructorOnce == [](C3_AtMostOnce) /\ [][C3_Step]_vars

\* C3 witness: the heap has been dropped and its page sets destroyed after a
\* value was destroyed by a cycle.
C3_Witness ==
  /\ pc = "dropped"
  /\ \E a \in DOMAIN drops : drops[a] = 1

\* A page limit is set for the type and its page count has reached it.
AtLimit(t) ==
  /\ t \in DOMAIN page_sets
  /\ page_sets[t].limit # NoLimit
  /\ page_sets[t].page_count >= page_sets[t].limit

\* No page of the type has a free slot.
NoFreeSlot(t) ==
  \A a \in Slots : pages[a[1]].type = t => is_allocated(mw[a])

\* A try_alloc gives up its first attempt and starts its collection.
AllocStartsGc == pc = "idle" /\ pc' = "swap" /\ gc_caller' = "alloc"

\* C4, state part: when try_alloc has returned None, the type's limit is set
\* and reached and no page of the type has a free slot.
C4_NoneState ==
  (pc = "idle" /\ ret.kind = "none") =>
    \A t \in DOMAIN page_sets : AtLimit(t) /\ NoFreeSlot(t)

\* C4, step part: try_alloc collects only at the limit with no free slot, the
\* retry after the collection returns None exactly when the limit is reached
\* and the collection left no free slot, the retry is never followed by a
\* second collection, and the first attempt never returns None.
C4_Step ==
  /\ AllocStartsGc => (AtLimit(pending'.type) /\ NoFreeSlot(pending'.type))
  /\ (pc = "retry" /\ pc' = "idle") =>
       /\ ret'.kind \in {"some", "none"}
       /\ ret'.kind = "none" <=> (AtLimit(pending.type) /\ NoFreeSlot(pending.type))
  /\ pc = "retry" => pc' \in {"retry", "idle"}
  /\ (pc = "idle" /\ ret' # ret) => ret'.kind # "none"

\* C4: try_alloc returns None only when the type's page limit is set and
\* reached and its one collection left no free slot, and returns a reference
\* otherwise; it collects at most once and retries once.
C4_NoneOnlyAtLimit == [](C4_NoneState) /\ [][C4_Step]_vars

\* C4 witness: a try_alloc for a type without a page limit has run its
\* collection and is about to retry.
C4_Witness ==
  /\ pc = "retry"
  /\ page_sets[pending.type].limit = NoLimit

\* The pages of a type in a page table.
PagesOf(pg, t) == {p \in DOMAIN pg : pg[p].type = t}

\* C5, step part: no step creates a page for a type whose limit is reached, a
\* set_page_limit changes nothing but the limit, and a try_alloc that finds a
\* non-full page of its type does not collect.
C5_Step ==
  /\ \A t \in DOMAIN page_sets :
       AtLimit(t) => /\ PagesOf(pages', t) \subseteq PagesOf(pages, t)
                     /\ t \in DOMAIN page_sets' =>
                          page_sets'[t].page_count <= page_sets[t].page_count
  /\ (pc = "idle" /\ pc' = "idle" /\ ret'.kind = "limit") =>
       /\ pages' = pages /\ mw' = mw /\ mem' = mem /\ drops' = drops
       /\ \A t \in DOMAIN page_sets :
            /\ page_sets'[t].page_count = page_sets[t].page_count
            /\ page_sets'[t].full_pages = page_sets[t].full_pages
            /\ page_sets'[t].other_pages = page_sets[t].other_pages
  /\ (AllocStartsGc /\ pending'.type \in DOMAIN page_sets) =>
       page_sets[pending'.type].other_pages = NullPage

\* C5: while a limit is set no page is created for a type whose page count has
\* reached it, set_page_limit frees and creates nothing, and allocation from
\* the non-full pages goes on after the limit is lowered.
C5_LimitStopsGrowth == [][C5_Step]_vars

\* C5 witness: an allocation has succeeded from a non-full page of a type
\* whose limit is below its page count.
C5_Witness ==
  /\ pc = "idle"
  /\ ret.kind = "some"
  /\ \E t \in DOMAIN page_sets :
       page_sets[t].limit # NoLimit /\ page_sets[t].page_count > page_sets[t].limit

DifferentHeap == "can't thaw a frozen reference into a different heap"

DroppedHeap == "can't thaw a reference into a heap that has been dropped"

\* C6: the reference frozen in the second heap is never thawed in this heap's
\* session: the attempt panics with the mismatch message while the second heap
\* exists and with the upgrade message once it is dropped, every GcRef of the
\* session points to a slot of this heap that carries its pin, and thaws of
\* this heap's own frozen references never fail the identity check.
C6_ThawOwnHeapOnly ==
  /\ other_frozen = 1
  /\ panic = DifferentHeap => other_arc_alive
  /\ panic = DroppedHeap => ~other_arc_alive
  /\ \A a \in AllAddrs :
       refs[a] > 0 => (a \in Slots /\ PinCount(mw[a]) >= refs[a])

\* C6 witness: the thaw of a reference whose heap was dropped has panicked in
\* a session that holds a live value of its own.
C6_Witness ==
  /\ pc = "panicked"
  /\ panic = DroppedHeap
  /\ ~other_arc_alive
  /\ \E a \in Slots : is_allocated(mw[a]) /\ refs[a] > 0

\* C7, state part: a slot with a frozen reference alive is allocated and
\* carries a pin for it and for each GcRef, at every point of the session.
C7_FrozenPinned ==
  InSession =>
    \A a \in AllAddrs :
      frozen[a] > 0 => /\ a \in Slots
                       /\ is_allocated(mw[a])
                       /\ PinCount(mw[a]) >= frozen[a] + refs[a]

\* C7, step part: freeze and thaw turn one handle of a slot into the other
\* kind on the same slot and leave every mark word and value alone.
C7_Step ==
  (pc = "idle" /\ pc' = "idle" /\ frozen' # frozen /\ refs' # refs) =>
    /\ mw' = mw
    /\ mem' = mem
    /\ \A a \in AllAddrs : refs'[a] + frozen'[a] = refs[a] + frozen[a]

\* C7: thaw(freeze(r)) is a reference to the slot of r, the slot is pinned at
\* every point in between, and the round trip leaves its pin count as it was.
C7_FreezeThawRoundTrip == [](C7_FrozenPinned) /\ [][C7_Step]_vars

\* C7 witness: a thaw has returned the only reference to a slot whose pin
\* count is one.
C7_Witness ==
  /\ pc = "idle"
  /\ ret.kind = "thaw"
  /\ ret.ptr \in Slots
  /\ refs[ret.ptr] = 1 /\ frozen[ret.ptr] = 0
  /\ PinCount(mw[ret.ptr]) = 1 /\ is_allocated(mw[ret.ptr])

\* How often the address a occurs in the sequence q.
Count(q, a) == Cardinality({k \in 1..Len(q) : q[k] = a})

\* The pins of slot a that are still owed to somebody: GcRefs held or
\* forgotten, frozen references alive, queue entries not yet taken by a cycle,
\* and the child of the value a collecting try_alloc holds.
Handles(a) ==
  refs[a] + frozen[a] + leaked[a] + Count(dropped_frozen_ptrs, a)
    + (IF pc \in {"swap", "unpin", "clear", "trace", "sweep", "retry"}
          /\ gc_caller = "alloc" /\ pending.child = a
       THEN 1 ELSE 0)

\* C8, state part: the pin count of a slot is the number of its handles, plus
\* the entries a cycle has taken from the queue until it has unpinned them; a
\* slot the cycle unpinned is among its roots only if a handle is left; and
\* after a completed force_gc every allocated slot is reachable from a slot
\* with a handle.
C8_State ==
  /\ InSession =>
       \A a \in Slots :
         PinCount(mw[a]) =
           Handles(a) + (IF pc \in {"swap", "unpin"} THEN Count(dropped_ptrs, a) ELSE 0)
  /\ (pc = "trace" /\ gc_caller # "drop") =>
       \A a \in Range(unpinned) : a \in Range(roots) => Handles(a) > 0
  /\ AfterForceGc =>
       \A a \in Slots :
         is_allocated(mw[a]) => a \in ReachFrom({b \in Slots : Handles(b) > 0})

\* C8, step part: the cycle takes every entry the queue holds when it starts,
\* and its sweep destroys every slot it unpinned that no slot with a handle
\* reaches.
C8_Step ==
  /\ (pc = "idle" /\ pc' = "swap") =>
       (dropped_ptrs' = dropped_frozen_ptrs /\ dropped_frozen_ptrs' = <<>>)
  /\ (pc = "sweep" /\ pc' # "sweep" /\ gc_caller # "drop") =>
       \A a \in Range(unpinned) :
         (is_allocated(mw[a]) /\ a \notin ReachFrom({b \in Slots : Handles(b) > 0}))
           => (~is_allocated(mw'[a]) /\ drops'[a] = 1)

\* C8: the pin of a frozen reference dropped while the heap exists is released
\* by the first cycle that starts after the drop, before the roots are
\* computed, and a slot it was the last pin of is destroyed by that cycle
\* unless something else reaches it.
C8_DroppedFrozenUnpinned == [](C8_State) /\ [][C8_Step]_vars

\* C8 witness: a force_gc has unpinned the slot of a dropped frozen reference,
\* has not found it among its roots nor marked it, and is about to sweep it.
C8_Witness ==
  /\ pc = "sweep"
  /\ gc_caller = "force"
  /\ \E a \in Range(unpinned) :
       a \in Slots /\ is_allocated(mw[a]) /\ PinCount(mw[a]) = 0 /\ ~is_marked(mw[a])

\* No GcRef has been forgotten.
NoLeak == \A a \in AllAddrs : leaked[a] = 0

EmptinessAssertion == "assert all_pages_are_empty()"

\* C9, state part, when no GcRef was leaked: after the drain of the drop-time
\* cycle the only pins left are those of frozen references, nothing is marked
\* when the sweep starts, every slot is free when the assertion is evaluated
\* and when the page sets are released, and the assertion does not fail.
C9_State ==
  NoLeak =>
    /\ (pc = "clear" /\ gc_caller = "drop") =>
         \A a \in Slots : PinCount(mw[a]) = frozen[a] + Count(dropped_frozen_ptrs, a)
    /\ (pc = "sweep" /\ gc_caller = "drop") => \A a \in Slots : ~is_marked(mw[a])
    /\ pc \in {"assert", "fields"} => \A a \in Slots : ~is_allocated(mw[a])
    /\ panic # EmptinessAssertion

\* C9, step part: the sweep of the drop-time cycle destroys every allocated
\* slot.
C9_Step ==
  (NoLeak /\ pc = "sweep" /\ gc_caller = "drop" /\ pc' = "assert") =>
    \A a \in Slots :
      is_allocated(mw[a]) => (drops'[a] = 1 /\ ~is_allocated(mw'[a]))

\* C9: when the heap is dropped and no GcRef was leaked, the drop-time cycle
\* drains the queue, marks nothing and destroys every allocated slot, so every
\* page is empty before the page sets release their memory.
C9_DropEmptiesHeap == [](C9_State) /\ [][C9_Step]_vars

\* C9 witness: the page sets are about to be released after a drop-time cycle
\* that destroyed a value still pinned by a live frozen reference.
C9_Witness ==
  /\ NoLeak
  /\ pc = "fields"
  /\ \E a \in Slots : frozen[a] > 0 /\ drops[a] = 1 /\ ~is_allocated(mw[a])

\* C10 as stated: the drop of a heap with a leaked pinned slot never gets past
\* the emptiness assertion.
C10_LeakPanics ==
  \A a \in Slots : (leaked[a] > 0 /\ PinCount(mw[a]) > 0) => pc # "fields"

\* C10 amended: a slot that is still pinned when the heap is dropped is
\* destroyed by the drop-time cycle like every other allocated slot, so the
\* emptiness assertion, which reads allocated bits only, passes and the drop
\* does not panic.
C10_PinnedSlotSwept ==
  /\ panic # EmptinessAssertion
  /\ pc = "assert" => heap_is_empty(Heap)
  /\ pc \in {"assert", "fields"} =>
       \A a \in Slots :
         PinCount(mw[a]) > 0 => (~is_allocated(mw[a]) /\ drops[a] = 1)

\* C10 witness: the drop has passed the assertion with a leaked pin on a slot
\* whose value the drop-time cycle destroyed.
C10_Witness ==
  /\ pc = "fields"
  /\ \E a \in Slots : /\ leaked[a] > 0 /\ PinCount(mw[a]) > 0
                      /\ ~is_allocated(mw[a]) /\ drops[a] = 1

\* C11: the tracer is out of the heap exactly during a marking phase, every
\* cycle the session starts finds it in the heap when marking::mark takes it,
\* and the nested-collection panic is raised only while it is out.
C11_NoNestedGc ==
  /\ pc \in {"idle", "swap", "unpin", "clear", "trace", "sweep", "retry", "assert",
            "fields"}
       => (marking_tracer <=> pc # "trace")
  /\ pc = "clear" => take_marking_tracer(marking_tracer).fail = ""
  /\ panic = NestedGC => ~marking_tracer

\* C11 witness: a cycle entered during the marking phase of another one has
\* panicked, with the roots of the outer cycle still pending.
C11_Witness ==
  /\ pc = "panicked"
  /\ panic = NestedGC
  /\ ~marking_tracer
  /\ roots # <<>>

\* A try_alloc returns Some in this step.
AllocReturnsSome ==
  pc \in {"idle", "retry"} /\ pc' = "idle" /\ ret'.kind = "some" /\ mw' # mw

\* C12, step part: the slot a successful alloc returns was not allocated and
\* had no reference before the call, and the value of a slot the session holds
\* a reference to is changed by no step but a write through a reference to
\* that slot.
C12_Step ==
  /\ AllocReturnsSome =>
       /\ ret'.ptr \in Slots => ~is_allocated(mw[ret'.ptr])
       /\ refs[ret'.ptr] = 0 /\ frozen[ret'.ptr] = 0
       /\ is_allocated(mw'[ret'.ptr]) /\ refs'[ret'.ptr] = 1
  /\ \A a \in Slots :
       (refs[a] > 0 /\ pc' \notin {"dropped"}
          /\ ~(pc = "idle" /\ ret'.kind = "write" /\ ret'.ptr = a))
         => (mem'[a] = mem[a] /\ is_allocated(mw'[a]))

\* C12: a successful alloc returns a slot whose allocated bit was clear (the
\* assertion of the page's try_alloc holds), so references of distinct allocs
\* that are both held are to distinct slots, and the value behind a held
\* reference is changed only by writes through a reference to its slot.
C12_DistinctSlots ==
  /\ [](panic # "assert !mw.is_allocated()")
  /\ [][C12_Step]_vars

\* C12 witness: an alloc has returned a reference while the reference of an
\* earlier alloc to another slot is held, and both slots are allocated.
C12_Witness ==
  /\ pc = "idle"
  /\ ret.kind = "some"
  /\ refs[ret.ptr] > 0
  /\ \E a \in Slots : a # ret.ptr /\ refs[a] > 0 /\ is_allocated(mw[a])

\* C13: right after a completed force_gc, with nothing dropped into the queue
\* since, a further cycle leaves the heap as it is: the same mark words
\* (allocated bits and pin counts), slot words and freelists, page lists and
\* page counts, and no further destructor run.
C13_ForceGcIdempotent ==
  (AfterForceGc /\ dropped_frozen_ptrs = <<>>) =>
    LET after == gc_cycle(Heap, dropped_frozen_ptrs, FALSE)
    IN /\ after.pages = pages /\ after.sets = page_sets
       /\ after.mw = mw /\ after.mem = mem /\ after.drops = drops

\* C13 witness: a force_gc has completed that kept a pinned slot and an
\* unpinned slot reachable from it, and the queue is empty.
C13_Witness ==
  /\ AfterForceGc
  /\ dropped_frozen_ptrs = <<>>
  /\ \E a, b \in Slots : /\ is_allocated(mw[a]) /\ PinCount(mw[a]) > 0 /\ mem[a] = b
                         /\ is_allocated(mw[b]) /\ PinCount(mw[b]) = 0

\* The states between operations: no operation is running, or a collection
\* cycle has just completed inside try_alloc or inside the heap's drop.
BetweenOperations == pc \in {"idle", "retry", "assert"}

\* Every page on the full list of the set has a null freelist and every page
\* on its non-full list a non-null one.
ListsMatchFreelists(ps) ==
  /\ \A p \in Range(each_page(Heap, ps.full_pages)) : pages[p].freelist = NULL
  /\ \A p \in Range(each_page(Heap, ps.other_pages)) : pages[p].freelist # NULL

\* C15: between operations every page on a full list has a null freelist and
\* every page on a non-full list has a non-null freelist, for every type.
C15_ListsMatchFreelists ==
  BetweenOperations => \A t \in DOMAIN page_sets : ListsMatchFreelists(page_sets[t])

\* C15 witness: the cycle run by a try_alloc has completed and the non-full
\* list of the type holds a page without a free slot.
C15_Witness ==
  /\ pc = "retry"
  /\ \E t \in DOMAIN page_sets :
       /\ page_sets[t].other_pages # NullPage
       /\ pages[page_sets[t].other_pages].freelist = NULL

\* The freelist of a page from the address a on, followed through the words of
\* the slots for at most n links.
RECURSIVE freelist_chain(_, _)
freelist_chain(a, n) ==
  IF a = NULL \/ n = 0 THEN <<>>
  ELSE <<a>> \o freelist_chain(IF a \in DOMAIN mem THEN mem[a] ELSE NULL, n - 1)

\* The slots of a page whose allocated bit is clear.
FreeSlots(p) == {a \in Slots : a[1] = p /\ ~is_allocated(mw[a])}

\* C16: in every page the freelist is a chain without a cycle that holds each
\* slot of the page whose allocated bit is clear exactly once and no other
\* slot, and the assertion of the page's try_alloc never fails.
C16_FreelistIsFreeSlots ==
  /\ \A p \in PageIds :
       LET chain == freelist_chain(pages[p].freelist, capacity(pages[p].type) + 1)
       IN /\ Len(chain) <= capacity(pages[p].type)
          /\ \A i, j \in 1..Len(chain) : chain[i] = chain[j] => i = j
          /\ Range(chain) = FreeSlots(p)
  /\ panic # "assert !mw.is_allocated()"

\* C16 witness: after a sweep a page has one slot allocated and one slot on its
\* freelist, and the freed slot has been destroyed.
C16_Witness ==
  /\ AfterForceGc
  /\ \E p \in PageIds, a, b \in Slots :
       /\ a[1] = p /\ b[1] = p
       /\ is_allocated(mw[a])
       /\ pages[p].freelist = b /\ mem[b] = NULL
       /\ drops[b] >= 1

\* C17: in every reachable state every slot whose marked bit is set has its
\* allocated bit set, so every slot on a freelist is unmarked, and the slot a
\* try_alloc has just returned is unmarked.
C17_MarkedIsAllocated ==
  /\ \A a \in Slots : is_marked(mw[a]) => is_allocated(mw[a])
  /\ (pc = "idle" /\ ret.kind = "some") => ~is_marked(mw[ret.ptr])

\* C17 witness: the retry of a try_alloc has returned a slot that the sweep of
\* its collection had put back on the freelist, while the other slot of the
\* page still carries the mark of that cycle.
C17_Witness ==
  /\ pc = "idle"
  /\ ret.kind = "some"
  /\ gc_caller = "alloc"
  /\ AtLimit(pages[ret.ptr[1]].type)
  /\ \E b \in Slots : b[1] = ret.ptr[1] /\ b # ret.ptr /\ is_marked(mw[b])

\* Every slot with a nonzero pin count has its allocated bit set.
PinnedIsAllocated == \A a \in Slots : PinCount(mw[a]) > 0 => is_allocated(mw[a])

\* When clear-mark-bits has built the root vector of a cycle, the vector holds
\* every slot with a nonzero pin count exactly once and no other slot, and no
\* slot of any page is marked.
RootsArePinnedSlots ==
  pc = "trace" =>
    /\ Range(roots) \subseteq Slots
    /\ \A a \in Slots : Count(roots, a) = IF PinCount(mw[a]) > 0 THEN 1 ELSE 0
    /\ \A a \in Slots : ~is_marked(mw[a])

\* C18 as stated: in every reachable state a slot with a nonzero pin count is
\* allocated, and the root vector built at the start of a cycle is the pinned
\* slots, each once, with every slot unmarked.
C18_PinnedIsAllocatedAlways == PinnedIsAllocated /\ RootsArePinnedSlots

\* The sweep of the cycle run by the heap's drop has been done.
AfterDropSweep == gc_caller = "drop" /\ pc \in {"assert", "fields", "dropped", "panicked"}

\* C18, amended: until the sweep of the drop-time cycle a slot with a nonzero
\* pin count is allocated, and the root vector built at the start of every
\* cycle is the pinned slots, each once, with every slot unmarked.
C18_PinnedIsAllocated ==
  /\ ~AfterDropSweep => PinnedIsAllocated
  /\ RootsArePinnedSlots

\* C18 witness: the root vector of a cycle has been built while one slot is
\* pinned and another slot is allocated, unpinned and carries no mark.
C18_Witness ==
  /\ pc = "trace"
  /\ \E a, b \in Slots :
       /\ PinCount(mw[a]) > 0 /\ Count(roots, a) = 1
       /\ is_allocated(mw[b]) /\ PinCount(mw[b]) = 0 /\ Count(roots, b) = 0

\* The slots of page p that are allocated in the heap h.
AllocatedIn(h, p) == {a \in DOMAIN h.mw : a[1] = p /\ is_allocated(h.mw[a])}

\* What PageSet::sweep does to the set of type t, from the heap of this state.
SweepKeepsPages(t) ==
  LET r == set_sweep(Heap, t)
      full == each_page(Heap, page_sets[t].full_pages)
      other == each_page(Heap, page_sets[t].other_pages)
      full_after == each_page(r, r.sets[t].full_pages)
      other_after == each_page(r, r.sets[t].other_pages)
      freed(p) == AllocatedIn(r, p) # AllocatedIn(Heap, p)
  IN /\ Range(r.swept) = Range(full \o other)
     /\ \A p \in Range(full \o other) : Count(r.swept, p) = 1
     /\ \A p \in Range(full) : IF freed(p) THEN p \in Range(other_after)
                                             ELSE p \in Range(full_after)
     /\ \A p \in Range(other) : p \in Range(other_after)
     /\ \A p \in PageIds : Count(full_after \o other_after, p) = Count(full \o other, p)
     /\ r.sets[t].page_count = page_sets[t].page_count
     /\ page_sets'[t] = r.sets[t]
     /\ \A p \in Range(full \o other) : pages'[p] = r.pages[p]

\* C19: the sweep of a page set runs TypedPage::sweep on each of its pages
\* exactly once, moves exactly the full pages that freed a slot to the
\* non-full list, keeps every other page on its list, and leaves the two lists
\* with the same pages as before, each once, and the same page_count.
C19_SweepKeepsPages ==
  [][(pc = "sweep" /\ pc' # "sweep") =>
       \A t \in DOMAIN page_sets : SweepKeepsPages(t)]_vars

\* C19 witness: a sweep has moved two pages from the full list to the non-full
\* list of their set.
C19_Witness ==
  /\ AfterForceGc
  /\ \E t \in DOMAIN page_sets :
       /\ page_sets[t].full_pages = NullPage
       /\ Len(each_page(Heap, page_sets[t].other_pages)) = 2
       /\ \A p \in Range(each_page(Heap, page_sets[t].other_pages)) :
            \E a \in Slots : a[1] = p /\ drops[a] >= 1

\* A try_alloc that found no capacity is between its first attempt and the end
\* of its retry.
AllocCollecting ==
  pc \in {"swap", "unpin", "clear", "trace", "sweep", "retry"} /\ gc_caller = "alloc"

\* C20: while the collection of a try_alloc runs, the slot the value being
\* allocated points to is pinned and allocated and has not been destroyed; and
\* when try_alloc has returned a reference, the heap pointer stored in the new
\* slot designates an allocated slot that has not been destroyed.
C20_ChildSurvivesAllocGc ==
  /\ (AllocCollecting /\ pending.child # NULL) =>
       /\ pending.child \in Slots
       /\ PinCount(mw[pending.child]) > 0
       /\ is_allocated(mw[pending.child])
       /\ drops[pending.child] = 0
  /\ (pc = "idle" /\ ret.kind = "some" /\ mem[ret.ptr] # NULL) =>
       /\ mem[ret.ptr] \in Slots
       /\ is_allocated(mw[mem[ret.ptr]])
       /\ drops[mem[ret.ptr]] = 0

\* C20 witness: the retry of a try_alloc at the page limit has stored a value
\* whose pointee is referenced by nothing else: no GcRef, no frozen reference,
\* no other slot.
C20_Witness ==
  /\ pc = "idle"
  /\ ret.kind = "some"
  /\ gc_caller = "alloc"
  /\ AtLimit(pages[ret.ptr[1]].type)
  /\ mem[ret.ptr] # NULL
  /\ PinCount(mw[mem[ret.ptr]]) = 0
  /\ is_allocated(mw[mem[ret.ptr]])
  /\ \A b \in Slots : (is_allocated(mw[b]) /\ mem[b] = mem[ret.ptr]) => b = ret.ptr

\* C21: no page set ever holds a page of a type of capacity 0, and no slot is
\* ever returned for such a type: the type is rejected before its first page
\* is constructed.
C21_CapacityZeroRejected ==
  /\ \A p \in PageIds : capacity(pages[p].type) >= 1
  /\ \A t \in DOMAIN page_sets : capacity(t) = 0 => page_sets[t].page_count = 0
  /\ ret.kind = "some" => capacity(pages[ret.ptr[1]].type) >= 1

\* C21 witness: a page of a type of capacity 0 has been constructed and
\* counted by its page set, and nothing has panicked.
C21_Witness ==
  /\ panic = ""
  /\ \E p \in PageIds :
       /\ capacity(pages[p].type) = 0
       /\ page_sets[pages[p].type].page_count = 1
       /\ page_sets[pages[p].type].other_pages = p

\* r is the smallest multiple of k that is at least n.
IsSmallestMultiple(r, n, k) == r % k = 0 /\ r >= n /\ r < n + k

\* C22: round_up(n, k) is the smallest multiple of k that is at least n, for
\* the enumerated arguments and for the size of every type the heap has a page
\* set for; the mark word of every slot of every page is MarkWord-aligned; and
\* a zero-sized type gets a slot of a mark word plus one pointer.
C22_RoundUpSmallestMultiple ==
  /\ \A n \in 0..MaxRoundUp, k \in 1..MaxRoundUp : IsSmallestMultiple(round_up(n, k), n, k)
  /\ \A t \in DOMAIN page_sets :
       /\ IsSmallestMultiple(round_up(Max(SizeOf(t), WORD), WORD), Max(SizeOf(t), WORD), WORD)
       /\ allocation_size(t) % WORD = 0
  /\ \A a \in Slots : mark_word_offset(pages[a[1]].type, a[2]) % WORD = 0
  /\ slot_size(0) = 2 * WORD

\* C22 witness: a value lives in a slot whose mark word is not aligned, in a
\* page of a type whose size is not a multiple of the MarkWord alignment.
C22_Witness ==
  \E a \in Slots :
    /\ is_allocated(mw[a])
    /\ refs[a] > 0
    /\ SizeOf(pages[a[1]].type) % WORD # 0
    /\ mark_word_offset(pages[a[1]].type, a[2]) % WORD # 0

\* The sequence q is the beginning of the sequence r.
IsPrefix(q, r) == Len(q) <= Len(r) /\ SubSeq(r, 1, Len(q)) = q

\* The step is a drop of a frozen reference to slot a.
IsFrozenDrop(a) ==
  /\ frozen' = [frozen EXCEPT ![a] = @ - 1]
  /\ refs' = refs /\ mw' = mw /\ pc' = pc

\* The step is the drain that starts a cycle: the lock is taken and the queue
\* swapped for an empty vector.
IsDrain == pc # "swap" /\ pc' = "swap"

\* C23, state part: while the session lasts the pin count of every slot is the
\* number of its handles, queue entries included, plus the entries the running
\* cycle has taken and not yet unpinned: no entry is lost or counted twice.
C23_State ==
  InSession =>
    \A a \in Slots :
      PinCount(mw[a]) - Count(dropped_frozen_ptrs, a)
          - (IF pc \in {"swap", "unpin"} THEN Count(dropped_ptrs, a) ELSE 0)
        = refs[a] + frozen[a] + leaked[a]
            + (IF AllocCollecting /\ pending.child = a THEN 1 ELSE 0)

\* C23, step part: a drop of a frozen reference while the heap exists appends
\* its address to the queue, at every point of a cycle; a drain takes the whole
\* queue and leaves it empty; the cycle then lowers each pin count by the
\* number of entries it took for the slot; and between drains the queue only
\* grows at its end.
C23_Step ==
  /\ \A a \in AllAddrs :
       (IsFrozenDrop(a) /\ arc_alive) =>
         dropped_frozen_ptrs' = Append(dropped_frozen_ptrs, a)
  /\ IsDrain =>
       /\ dropped_ptrs' = dropped_frozen_ptrs
       /\ dropped_frozen_ptrs' = <<>>
  /\ (pc = "unpin" /\ pc' = "clear") =>
       /\ \A a \in Slots :
            PinCount(mw'[a]) = PinCount(mw[a]) - Count(dropped_ptrs, a)
       /\ dropped_ptrs' = <<>>
  /\ (~IsDrain /\ arc_alive' /\ pc' # "panicked") =>
       IsPrefix(dropped_frozen_ptrs, dropped_frozen_ptrs')

\* C23: for every interleaving of frozen-reference drops with cycles, each
\* address pushed during the session is unpinned exactly once, by the first
\* cycle that drains the queue after the push; a push that arrives after the
\* drain of a cycle stays in the queue for the next one; the queue is empty
\* right after each drain.
C23_QueueUnpinnedOnce == [](C23_State) /\ [][C23_Step]_vars

\* C23 witness: a cycle has drained the queue and unpinned what it took, and a
\* frozen reference dropped since then waits in the queue for the next cycle.
C23_Witness ==
  /\ pc \in {"clear", "trace", "sweep"}
  /\ gc_caller # "drop"
  /\ unpinned # <<>>
  /\ dropped_frozen_ptrs # <<>>

\* C24, state part: the heap thread holds the mutex only between its lock and
\* the end of the swap, with the queue already swapped out; in every other
\* state, those of the unpin loop, marking, sweeping and allocation included,
\* a drop of a live frozen reference can take its step.
C24_State ==
  /\ guard = "heap" => (pc = "swap" /\ dropped_frozen_ptrs = <<>>)
  /\ (pc \notin {"swap", "panicked"}) =>
       \A a \in AllAddrs : frozen[a] > 0 => ENABLED FrozenDrop(a)

\* C24, step part: the step the heap thread takes while it holds the mutex
\* releases it and touches no page, mark word or slot; every step that changes
\* a mark word, a slot, a freelist or a page list starts with the mutex free;
\* and a drop of a frozen reference leaves the mutex free.
C24_Step ==
  /\ (guard = "heap" /\ pc' # pc) =>
       /\ guard' = ""
       /\ pc' = "unpin"
       /\ UNCHANGED <<heapVars, dropped_ptrs, dropped_frozen_ptrs>>
  /\ (mw' # mw \/ mem' # mem \/ pages' # pages \/ page_sets' # page_sets) => guard = ""
  /\ \A a \in AllAddrs : IsFrozenDrop(a) => (guard = "" /\ guard' = "")

\* C24: the mutex of the deferred-unpin queue is held for one push or for one
\* swap-out of the queue; it is released before any slot is unpinned and is
\* never held while the heap allocates, marks or sweeps, so a drop of a frozen
\* reference is not kept waiting by a collection.
C24_LockHeldForSwapOnly == [](C24_State) /\ [][C24_Step]_vars

\* C24 witness: the cycle has released the mutex and not yet unpinned the
\* entries it took, and a frozen reference has been dropped in between.
C24_Witness ==
  /\ pc = "unpin"
  /\ guard = ""
  /\ dropped_ptrs # <<>>
  /\ dropped_frozen_ptrs # <<>>

\* The step drops one frozen reference to slot a: a frozen reference goes away
\* and no GcRef appears in its place.
FrozenRefDropped(a) == frozen' = [frozen EXCEPT ![a] = @ - 1] /\ refs' = refs

\* C25, state part: during the session every entry of the queue still has its
\* pin on the slot.
C25_State ==
  InSession => \A a \in Slots : PinCount(mw[a]) >= Count(dropped_frozen_ptrs, a)

\* C25, step part: a drop of a frozen reference changes no mark word, slot,
\* freelist, page list or destructor count and nothing of the heap thread; it
\* appends the one address to the queue when the heap exists and leaves the
\* queue as it is when the heap has been dropped.
C25_Step ==
  \A a \in AllAddrs :
    FrozenRefDropped(a) =>
      /\ UNCHANGED <<heapVars, gcVars, marking_tracer, arc_alive, pc, pending, leaked,
                     ret, panic>>
      /\ arc_alive => dropped_frozen_ptrs' = Append(dropped_frozen_ptrs, a)
      /\ ~arc_alive => dropped_frozen_ptrs' = dropped_frozen_ptrs

\* C25: dropping a frozen reference changes no mark word, freelist or page
\* list; with the heap alive it appends exactly one address to the queue and
\* the pin stays until a cycle drains the queue; with the heap dropped it
\* changes nothing.
C25_FrozenDropOnlyPushes == [](C25_State) /\ [][C25_Step]_vars

\* C25 witness: the only handle of a slot was a frozen reference, it has been
\* dropped, and the slot still carries its pin while the address waits in the
\* queue.
C25_Witness ==
  \E a \in Slots :
    /\ Count(dropped_frozen_ptrs, a) = 1
    /\ refs[a] = 0 /\ frozen[a] = 0 /\ leaked[a] = 0
    /\ PinCount(mw[a]) = 1
    /\ is_allocated(mw[a])

\* No element occurs twice in the sequence q.
NoDuplicates(q) == \A i, j \in 1..Len(q) : q[i] = q[j] => i = j

\* C26: from every heap a cycle starts marking from, cyclic and
\* self-referencing graphs included, the marking phase ends with an empty
\* stack; each slot reachable from the roots was marked and pushed exactly
\* once and had its edges enumerated, no other slot was marked or pushed, and
\* nothing but mark bits changed; when the tracer is back in the heap the
\* marked slots are the slots reachable from the pinned slots, and neither
\* assertion of replace_marking_tracer has failed.
C26_MarkingTerminates ==
  /\ (pc = "trace" /\ gc_caller # "drop") =>
       LET st == marking_mark(Heap, roots, FALSE)
           R == ReachFrom(Range(roots))
       IN /\ st.stack = <<>>
          /\ NoDuplicates(st.pushed)
          /\ Range(st.pushed) = R
          /\ \A a \in R : Count(st.traced, a) = 1
          /\ Range(st.traced) \subseteq R
          /\ \A a \in Slots : is_marked(st.h.mw[a]) <=> a \in R
          /\ \A a \in Slots : unmark(st.h.mw[a]) = mw[a]
          /\ st.h.mem = mem /\ st.h.pages = pages /\ st.h.sets = page_sets
  /\ (pc = "sweep" /\ gc_caller # "drop") =>
       /\ marking_tracer
       /\ \A a \in Slots : is_marked(mw[a]) <=> a \in ReachFrom(PinnedSlots)
  /\ panic \notin {"assert mark_stack_is_empty()", "assert marking_tracer.is_none()"}

\* C26 witness: marking has ended on a two-slot cycle of which one slot is
\* pinned: both slots are marked and the tracer is back in the heap.
C26_Witness ==
  /\ pc = "sweep"
  /\ gc_caller # "drop"
  /\ marking_tracer
  /\ \E a, b \in Slots :
       /\ a # b /\ mem[a] = b /\ mem[b] = a
       /\ HasPointer(pages[a[1]].type)
       /\ PinCount(mw[a]) > 0 /\ PinCount(mw[b]) = 0
       /\ is_marked(mw[a]) /\ is_marked(mw[b])

\* The messages of the debug assertions of MarkWord::pin and MarkWord::unpin.
PinAssertions ==
  {"debug_assert is_allocated (pin)", "debug_assert is_allocated (unpin)",
   "debug_assert is_pinned (unpin)"}

\* C27: no pin is applied to an unallocated slot and no unpin to an
\* unallocated or unpinned slot, in the session's operations and in the drain
\* of every cycle: none of the debug assertions of pin and unpin fails, and no
\* mark word goes below zero.
C27_PinOpsLegal ==
  /\ panic \notin PinAssertions
  /\ \A a \in Slots : mw[a] >= 0
  /\ pc = "unpin" =>
       \A a \in Range(dropped_ptrs) :
         /\ a \in Slots
         /\ is_allocated(mw[a])
         /\ PinCount(mw[a]) >= Count(dropped_ptrs, a)

\* C27 witness: the drain of a cycle has taken the last pin of an allocated
\* slot, the one its dropped frozen reference had held.
C27_Witness ==
  /\ pc = "clear"
  /\ \E a \in Range(unpinned) :
       /\ is_allocated(mw[a])
       /\ PinCount(mw[a]) = 0
       /\ refs[a] = 0 /\ frozen[a] = 0

\* C28, state part: page_count is the number of pages on the two lists of the
\* set, no page is linked twice, and the pages on the lists are the pages of
\* the set's type.
C28_State ==
  \A t \in DOMAIN page_sets :
    LET full == each_page(Heap, page_sets[t].full_pages)
        other == each_page(Heap, page_sets[t].other_pages)
    IN /\ page_sets[t].page_count = Len(full) + Len(other)
       /\ NoDuplicates(full \o other)
       /\ Range(full) \cap Range(other) = {}
       /\ Range(full \o other) = PagesOf(pages, t)

\* C28, step part: until the fields of the heap are dropped no step removes a
\* page set, lowers a page_count or releases a page, a collection's sweep and
\* set_page_limit included.
C28_Step ==
  pc # "fields" =>
    /\ PageIds \subseteq DOMAIN pages'
    /\ \A p \in PageIds : pages'[p].type = pages[p].type
    /\ \A t \in DOMAIN page_sets :
         /\ t \in DOMAIN page_sets'
         /\ page_sets'[t].page_count >= page_sets[t].page_count

\* C28: the page count of every set matches its two lists, every page is on
\* exactly one list, and pages are released only by the heap's drop.
C28_PageCountMatchesLists == [](C28_State) /\ [][C28_Step]_vars

\* C28 witness: a collection has left an empty page on the lists of a set
\* whose limit was set below its page count.
C28_Witness ==
  /\ pc = "idle"
  /\ ret.kind = "gc"
  /\ \E t \in DOMAIN page_sets :
       /\ page_sets[t].limit # NoLimit
       /\ page_sets[t].limit < page_sets[t].page_count
       /\ \E p \in PagesOf(pages, t) : page_is_empty(Heap, p)

\* No page set of the heap has a page limit.
NoLimits == \A t \in DOMAIN page_sets : page_sets[t].limit = NoLimit

\* The step runs the destructor of a slot.
RunsDestructor == \E a \in DOMAIN drops : a \in DOMAIN drops' /\ drops'[a] > drops[a]

\* The step allocates the slot it returns.
AllocatesSlot ==
  /\ ret'.kind = "some"
  /\ ~(ret'.ptr \in Slots /\ is_allocated(mw[ret'.ptr]))

\* C29, step part.  For a type of capacity at least 1 without a limit,
\* try_alloc starts no collection and does not return None; when it returns a
\* slot and the type had no non-full page, the slot lies in a page created by
\* the step.  In a heap without limits destructors run only in the
\* sweep of a force_gc or of the heap's drop and when the heap's fields are
\* dropped, the allocation of a type of capacity 0 set aside.
C29_Step ==
  /\ AllocStartsGc =>
       \/ page_sets'[pending'.type].limit # NoLimit
       \/ capacity(pending'.type) = 0
  /\ (ret'.kind = "none" /\ ret.kind # "none") =>
       /\ pc = "retry"
       /\ page_sets[pending.type].limit # NoLimit
  /\ (pc = "idle" /\ AllocatesSlot) =>
       LET p == ret'.ptr[1]
           t == pages'[p].type
           had == IF t \in DOMAIN page_sets THEN page_sets[t].page_count ELSE 0
       IN (t \notin DOMAIN page_sets \/
           (page_sets[t].limit = NoLimit /\ page_sets[t].other_pages = NullPage)) =>
            /\ pc' = "idle"
            /\ p \notin PageIds
            /\ page_sets'[t].page_count = had + 1
            /\ page_sets'[t].limit = NoLimit
  /\ (NoLimits /\ RunsDestructor) =>
       \/ pc = "sweep" /\ gc_caller \in {"force", "drop"}
       \/ pc = "sweep" /\ gc_caller = "alloc" /\ capacity(pending.type) = 0
       \/ pc = "fields"

\* C29, state part: try_alloc is never in its collection or its retry, and
\* never has returned None, for a type of capacity at least 1 without a limit.
C29_State ==
  /\ (pc \in {"swap", "unpin", "clear", "trace", "sweep"} /\ gc_caller = "alloc") =>
       \/ page_sets[pending.type].limit # NoLimit
       \/ capacity(pending.type) = 0
  /\ pc = "retry" =>
       \/ page_sets[pending.type].limit # NoLimit
       \/ capacity(pending.type) = 0
  /\ (pc = "idle" /\ ret.kind = "none") => ~NoLimits

\* C29: without a page limit a try_alloc for a type of capacity at least 1
\* never collects and never returns None, it creates a page when the type has
\* no non-full one; in a heap without limits objects are destroyed only by
\* force_gc and by the heap's drop.
C29_NoLimitNoCollection == [](C29_State) /\ [][C29_Step]_vars

\* C29 witness: in a heap without limits a try_alloc has created the second
\* page of a type whose first page was full, and the unreachable object of
\* the first page has not been destroyed.
C29_Witness ==
  /\ pc = "idle"
  /\ ret.kind = "some"
  /\ NoLimits
  /\ LET p == ret.ptr[1]
     IN /\ p \in PageIds
        /\ capacity(pages[p].type) >= 1
        /\ page_sets[pages[p].type].page_count = 2
        /\ \E a \in Slots :
             /\ a[1] # p
             /\ pages[a[1]].type = pages[p].type
             /\ is_allocated(mw[a])
             /\ PinCount(mw[a]) = 0
             /\ drops[a] = 0

\* The mark words with a pin count of at most MaxPins + 1.
MarkWords == 0..(PIN_UNIT * (MaxPins + 1) + ALLOCATED_BIT + MARK_BIT)

\* The three fields of a mark word.
Fields(w) == [marked |-> is_marked(w), allocated |-> is_allocated(w), pins |-> PinCount(w)]

\* The laws of the fields on every mark word of the range.
FieldLaws ==
  \A w \in MarkWords :
    LET f == Fields(w)
    IN /\ w = PIN_UNIT * f.pins + (IF f.allocated THEN ALLOCATED_BIT ELSE 0)
                            + (IF f.marked THEN MARK_BIT ELSE 0)
       /\ pin(w) = w + PIN_UNIT
       /\ Fields(pin(w)) = [f EXCEPT !.pins = @ + 1]
       /\ f.pins >= 1 =>
            /\ unpin(w) = w - PIN_UNIT
            /\ Fields(unpin(w)) = [f EXCEPT !.pins = @ - 1]
       /\ Fields(mark(w)) = [f EXCEPT !.marked = TRUE]
       /\ Fields(unmark(w)) = [f EXCEPT !.marked = FALSE]
       /\ Fields(set_allocated(w)) = [f EXCEPT !.allocated = TRUE]
       /\ Fields(clear_allocated(w)) = [f EXCEPT !.allocated = FALSE]
       /\ is_pinned(w) <=> f.pins # 0

\* C30: on every mark word of the range, and so on every mark word of the
\* heap, pin and unpin change the word by one pin unit and only the pin count,
\* mark, unmark, set_allocated and clear_allocated set or clear their own bit
\* and leave the two other fields unchanged, and is_pinned is true exactly
\* when the pin count is not zero.
C30_FieldsIndependent ==
  /\ \A a \in Slots : mw[a] \in MarkWords
  /\ FieldLaws

\* C30 witness: the marking of a cycle has set the mark bit of an allocated
\* slot that is pinned twice while another slot is allocated, unpinned and
\* unmarked.
C30_Witness ==
  /\ pc = "sweep"
  /\ \E a, b \in Slots :
       /\ Fields(mw[a]) = [marked |-> TRUE, allocated |-> TRUE, pins |-> 2]
       /\ Fields(mw[b]) = [marked |-> FALSE, allocated |-> TRUE, pins |-> 0]

====
